---------------------------- MODULE Spec2Model ----------------------------
(***************************************************************************)
(* RedisMan-go: the cursor iterators of internal/conn (SafeKeys, SafeSets, *)
(* SafeHash, SafeSortedSets, SafeList, SafeStream, Subscribe), the         *)
(* command.Parse / tokenize path every paging command goes through, and    *)
(* the resp value model.                                                   *)
(*                                                                         *)
(* A Go string is a sequence of one-character strings, so that formatting  *)
(* (fmt.Sprintf), tokenizing (command.tokenize) and text conversion        *)
(* (StringValue, strconv) are computed and not assumed.                    *)
(***************************************************************************)
EXTENDS Integers, Sequences, FiniteSets, TLC

(***************************************************************************)
(* Bounds of the model.                                                    *)
(***************************************************************************)
\* Longest inner array a server reply carries in the specification Spec.
MaxPageLen == 3
\* Most replies (or Subscribe polls) one iterator run receives in Spec.
MaxReplies == 3
\* Longest list the Redis list of the specification SpecList holds.
MaxListLen == 250

(***************************************************************************)
(* Program constants.                                                      *)
(***************************************************************************)
\* LRANGE window: "start, start+99" and "start += 100".
ListWindowLast == 99
ListStep == 100

(***************************************************************************)
(* Text helpers: strconv / strings / unicode of the Go standard library.   *)
(***************************************************************************)
Digits == <<"0", "1", "2", "3", "4", "5", "6", "7", "8", "9">>

Lower == <<"a", "b", "c", "d", "e", "f", "g", "h", "i", "j", "k", "l", "m",
           "n", "o", "p", "q", "r", "s", "t", "u", "v", "w", "x", "y", "z">>

Upper == <<"A", "B", "C", "D", "E", "F", "G", "H", "I", "J", "K", "L", "M",
           "N", "O", "P", "Q", "R", "S", "T", "U", "V", "W", "X", "Y", "Z">>

\* strconv.Itoa / FormatInt(n, 10) / fmt's %d.
RECURSIVE FormatNat(_)
FormatNat(n) ==
    IF n < 10 THEN <<Digits[n + 1]>>
    ELSE Append(FormatNat(n \div 10), Digits[(n % 10) + 1])

FormatInt(n) == IF n < 0 THEN <<"-">> \o FormatNat(0 - n) ELSE FormatNat(n)

IsDigit(c) == \E i \in 1..10 : Digits[i] = c

DigitVal(c) == (CHOOSE i \in 1..10 : Digits[i] = c) - 1

\* unicode.IsSpace over the characters of the model.
IsSpace(c) == c \in {" ", "\t", "\n", "\r"}

\* strings.ToUpper, one rune.
ToUpperRune(c) ==
    IF \E i \in 1..26 : Lower[i] = c
    THEN Upper[CHOOSE i \in 1..26 : Lower[i] = c]
    ELSE c

ToUpper(s) == [i \in 1..Len(s) |-> ToUpperRune(s[i])]

\* strings.TrimSpace(s) == "".
IsBlank(s) == \A i \in 1..Len(s) : IsSpace(s[i])

\* strings.TrimSpace.
RECURSIVE TrimLeft(_)
TrimLeft(s) == IF s # <<>> /\ IsSpace(Head(s)) THEN TrimLeft(Tail(s)) ELSE s

RECURSIVE TrimRight(_)
TrimRight(s) ==
    IF s # <<>> /\ IsSpace(s[Len(s)])
    THEN TrimRight(SubSeq(s, 1, Len(s) - 1))
    ELSE s

TrimSpace(s) == TrimRight(TrimLeft(s))

\* The positions (1-based) where sub occurs in s.
Occurrences(s, sub) ==
    {i \in 1..(Len(s) - Len(sub) + 1) : SubSeq(s, i, i + Len(sub) - 1) = sub}

Min(S) == CHOOSE m \in S : \A n \in S : m <= n

Max(S) == CHOOSE m \in S : \A n \in S : m >= n

\* strings.Index: 0 stands for Go's -1.
Index(s, sub) == IF Occurrences(s, sub) = {} THEN 0 ELSE Min(Occurrences(s, sub))

\* strings.LastIndex: 0 stands for Go's -1.
LastIndex(s, sub) == IF Occurrences(s, sub) = {} THEN 0 ELSE Max(Occurrences(s, sub))

(***************************************************************************)
(* command.tokenize: split on unquoted space; '\' escapes the next rune,   *)
(* '"' toggles the quote state, neither is kept in the token.              *)
(***************************************************************************)
RECURSIVE TokenizeFrom(_, _, _, _, _, _)
TokenizeFrom(input, i, tokens, cur, inQuotes, escaped) ==
    IF i > Len(input)
    THEN IF Len(cur) > 0 THEN Append(tokens, cur) ELSE tokens
    ELSE LET r == input[i] IN
         IF escaped
         THEN TokenizeFrom(input, i + 1, tokens, Append(cur, r), inQuotes, FALSE)
         ELSE IF r = "\\"
         THEN TokenizeFrom(input, i + 1, tokens, cur, inQuotes, TRUE)
         ELSE IF r = "\""
         THEN TokenizeFrom(input, i + 1, tokens, cur, ~inQuotes, FALSE)
         ELSE IF IsSpace(r) /\ ~inQuotes
         THEN IF Len(cur) > 0
              THEN TokenizeFrom(input, i + 1, Append(tokens, cur), <<>>, inQuotes, FALSE)
              ELSE TokenizeFrom(input, i + 1, tokens, cur, inQuotes, FALSE)
         ELSE TokenizeFrom(input, i + 1, tokens, Append(cur, r), inQuotes, FALSE)

tokenize(input) == TokenizeFrom(input, 1, <<>>, <<>>, FALSE, FALSE)

(***************************************************************************)
(* The serializer package.  A byte is a character of the text or, for a    *)
(* byte that is none, its two hexadecimal digits as one element.           *)
(***************************************************************************)
\* The characters 0x20 .. 0x7e in order; "??" holds the place of 0x60.
Printable ==
    <<" ", "!", "\"", "#", "$", "%", "&", "'", "(", ")", "*", "+",
        ",", "-", ".", "/", "0", "1", "2", "3", "4", "5", "6", "7",
        "8", "9", ":", ";", "<", "=", ">", "?", "@", "A", "B", "C",
        "D", "E", "F", "G", "H", "I", "J", "K", "L", "M", "N", "O",
        "P", "Q", "R", "S", "T", "U", "V", "W", "X", "Y", "Z", "[",
        "\\", "]", "^", "_", "??", "a", "b", "c", "d", "e", "f", "g",
        "h", "i", "j", "k", "l", "m", "n", "o", "p", "q", "r", "s",
        "t", "u", "v", "w", "x", "y", "z", "{", "|", "}", "~">>

\* The value of a byte: of a printable character, of CR and LF, and of a
\* byte written as its two hexadecimal digits where they are 00..0f.
ByteValue(c) ==
    IF \E i \in 1..Len(Printable) : Printable[i] = c
    THEN 31 + (CHOOSE i \in 1..Len(Printable) : Printable[i] = c)
    ELSE IF c = "\r" THEN 13
    ELSE IF c = "\n" THEN 10
    ELSE IF c = "01" THEN 1
    ELSE IF c = "02" THEN 2
    ELSE IF c = "ff" THEN 255
    ELSE 0

HexDigits == <<"0", "1", "2", "3", "4", "5", "6", "7",
               "8", "9", "a", "b", "c", "d", "e", "f">>

\* The byte n as one element.
HexByte(n) == HexDigits[(n \div 16) + 1] \o HexDigits[(n % 16) + 1]

ToLowerRune(c) ==
    IF \E i \in 1..26 : Upper[i] = c
    THEN Lower[CHOOSE i \in 1..26 : Upper[i] = c]
    ELSE c

ToLower(s) == [i \in 1..Len(s) |-> ToLowerRune(s[i])]

\* base64.StdEncoding: the alphabet, and padding with = to a multiple of four.
StdAlphabet ==
    <<"A", "B", "C", "D", "E", "F", "G", "H", "I", "J", "K", "L",
        "M", "N", "O", "P", "Q", "R", "S", "T", "U", "V", "W", "X",
        "Y", "Z", "a", "b", "c", "d", "e", "f", "g", "h", "i", "j",
        "k", "l", "m", "n", "o", "p", "q", "r", "s", "t", "u", "v",
        "w", "x", "y", "z", "0", "1", "2", "3", "4", "5", "6", "7",
        "8", "9", "+", "/">>

RECURSIVE EncodeToString(_)
EncodeToString(data) ==
    IF data = <<>> THEN <<>>
    ELSE LET b1 == ByteValue(data[1])
             b2 == IF Len(data) >= 2 THEN ByteValue(data[2]) ELSE 0
             b3 == IF Len(data) >= 3 THEN ByteValue(data[3]) ELSE 0
             c1 == StdAlphabet[(b1 \div 4) + 1]
             c2 == StdAlphabet[((b1 % 4) * 16 + (b2 \div 16)) + 1]
             c3 == StdAlphabet[((b2 % 16) * 4 + (b3 \div 64)) + 1]
             c4 == StdAlphabet[(b3 % 64) + 1]
         IN IF Len(data) = 1 THEN <<c1, c2, "=", "=">>
            ELSE IF Len(data) = 2 THEN <<c1, c2, c3, "=">>
            ELSE <<c1, c2, c3, c4>> \o EncodeToString(SubSeq(data, 4, Len(data)))

\* snappy.Encode(nil, data) for data of fewer than 17 bytes: the length as
\* a uvarint, then one literal chunk (tag (n-1)<<2, the bytes); the length
\* alone for no data.
snappyEncode(data) ==
    IF data = <<>> THEN <<HexByte(0)>>
    ELSE <<HexByte(Len(data)), HexByte((Len(data) - 1) * 4)>> \o data

\* gzipSerializer.Serialize: the ten header bytes of compress/gzip, the
\* deflate stream, CRC-32 and ISIZE.  The deflate stream is written here as
\* one stored block and the four checksum bytes as "crc".
gzipSerialize(data) ==
    <<"1f", "8b", "08", "00", "00", "00", "00", "00", "00", "ff">>
    \o <<"01", HexByte(Len(data)), "00", HexByte(255 - Len(data)), "ff">> \o data
    \o <<"crc", "crc", "crc", "crc", HexByte(Len(data)), "00", "00", "00">>

\* serializer.Get: the codec of the name in lower case, "" with an error.
serializerGet(name) ==
    IF ToLower(name) = <<"b", "a", "s", "e", "6", "4">> THEN "base64"
    ELSE IF ToLower(name) = <<"g", "z", "i", "p">> THEN "gzip"
    ELSE IF ToLower(name) = <<"s", "n", "a", "p", "p", "y">> THEN "snappy"
    ELSE ""

\* codec.Serialize(data).
Serialize(codec, data) ==
    CASE codec = "base64" -> EncodeToString(data)
      [] codec = "gzip" -> gzipSerialize(data)
      [] codec = "snappy" -> snappyEncode(data)

(***************************************************************************)
(* command.Parse(input, nil).  CommandBytes is the RESP array of bulk      *)
(* strings: the count line, then per token its length line and payload.    *)
(* An empty CommandBytes (count 0, no bulks) stands for the nil slice of   *)
(* the blank-input and no-token returns.  The SET-with-modifier branch     *)
(* rewrites token 2 of a command named SET only; the flag Serialize tells  *)
(* a caller that it applied, and err that Parse returned nil and an error. *)
(***************************************************************************)
NoBytes == [count |-> 0, bulks |-> <<>>]

EncodeTokens(tokens) ==
    [count |-> Len(tokens),
     bulks |-> [i \in 1..Len(tokens) |-> [len |-> Len(tokens[i]), bytes |-> tokens[i]]]]

StripPipe(input) ==
    LET pipeIdx == Index(input, <<" ", "|", " ">>) IN
    IF pipeIdx # 0
    THEN [pipe |-> TrimSpace(SubSeq(input, pipeIdx + 3, Len(input))),
          rest |-> SubSeq(input, 1, pipeIdx - 1)]
    ELSE [pipe |-> <<>>, rest |-> input]

StripCodec(input) ==
    LET codecIdx == LastIndex(input, <<"#", ":">>) IN
    IF codecIdx # 0
    THEN [modifier |-> TrimSpace(SubSeq(input, codecIdx + 2, Len(input))),
          rest |-> SubSeq(input, 1, codecIdx - 1)]
    ELSE [modifier |-> <<>>, rest |-> input]

\* return nil, fmt.Errorf(...): no command.
ParseError ==
    [Text |-> <<>>, Name |-> <<>>, Args |-> <<>>, Modifier |-> <<>>, Pipe |-> <<>>,
     Serialize |-> FALSE, err |-> TRUE, CommandBytes |-> NoBytes]

\* Mutant of Encoded: the key (token index 1) is serialized.
EncodedKey(tokens, serialize, modifier) ==
    [i \in 1..Len(tokens) |->
        IF serialize /\ i = 2 THEN Serialize(serializerGet(modifier), tokens[i])
        ELSE tokens[i]]

\* The tokens as they are encoded: token index 2 serialized when asked.
Encoded(tokens, serialize, modifier) ==
    [i \in 1..Len(tokens) |->
        IF serialize /\ i = 3 THEN Serialize(serializerGet(modifier), tokens[i])
        ELSE tokens[i]]

Parse(input) ==
    IF IsBlank(input)
    THEN [Text |-> <<>>, Name |-> <<>>, Args |-> <<>>, Modifier |-> <<>>,
          Pipe |-> <<>>, Serialize |-> FALSE, err |-> FALSE, CommandBytes |-> NoBytes]
    ELSE LET p == StripPipe(input)
             c == StripCodec(p.rest)
             tokens == tokenize(c.rest)
             serialize == /\ Len(tokens) >= 3
                          /\ ToUpper(tokens[1]) = <<"S", "E", "T">>
                          /\ c.modifier # <<>>
         IN IF Len(tokens) = 0
            THEN [Text |-> input, Name |-> <<>>, Args |-> <<>>,
                  Modifier |-> c.modifier, Pipe |-> p.pipe,
                  Serialize |-> FALSE, err |-> FALSE, CommandBytes |-> NoBytes]
            ELSE IF serialize /\ serializerGet(c.modifier) = ""
            THEN ParseError
            ELSE [Text |-> input,
                  Name |-> ToUpper(tokens[1]),
                  Args |-> Tail(tokens),
                  Modifier |-> c.modifier,
                  Pipe |-> p.pipe,
                  Serialize |-> serialize,
                  err |-> FALSE,
                  CommandBytes |-> EncodeTokens(Encoded(tokens, serialize, c.modifier))]

(***************************************************************************)
(* resp.RedisValue: the six value kinds and StringValue().                 *)
(***************************************************************************)
RedisString(s) == [type |-> "string", str |-> s, int |-> 0, values |-> <<>>]

RedisError(s) == [type |-> "error", str |-> s, int |-> 0, values |-> <<>>]

RedisInteger(n) == [type |-> "integer", str |-> <<>>, int |-> n, values |-> <<>>]

RedisBulkString(s) == [type |-> "bulk", str |-> s, int |-> Len(s), values |-> <<>>]

RedisArray(vs) == [type |-> "array", str |-> <<>>, int |-> 0, values |-> vs]

RedisNull == [type |-> "null", str |-> <<>>, int |-> 0, values |-> <<>>]

\* The nil RedisValue: what is returned with an error, a result not set.
NoValue == [type |-> "nil", str |-> <<>>, int |-> 0, values |-> <<>>]

StringValue(v) ==
    CASE v.type = "string" -> v.str
      [] v.type = "bulk" -> v.str
      [] v.type = "error" -> v.str
      [] v.type = "integer" -> FormatInt(v.int)
      [] v.type = "array" -> <<>>
      [] v.type = "null" -> <<>>

\* Error texts are kept whole, as one item: they are never tokenized.
Msg(text) == <<text>>

(***************************************************************************)
(* The iterators.  family names the iterator-producing method.             *)
(***************************************************************************)
ScanFamilies == {"SafeKeys", "SafeSets", "SafeHash", "SafeSortedSets"}

CursorFamilies == ScanFamilies \cup {"SafeList", "SafeStream"}

Families == CursorFamilies \cup {"Subscribe"}

\* The command name used in the paging command and in the error texts.
CmdName(f) ==
    CASE f = "SafeKeys" -> <<"S", "C", "A", "N">>
      [] f = "SafeSets" -> <<"S", "S", "C", "A", "N">>
      [] f = "SafeHash" -> <<"H", "S", "C", "A", "N">>
      [] f = "SafeSortedSets" -> <<"Z", "S", "C", "A", "N">>
      [] f = "SafeList" -> <<"L", "R", "A", "N", "G", "E">>
      [] f = "SafeStream" -> <<"X", "R", "A", "N", "G", "E">>

Count100 == <<" ", "C", "O", "U", "N", "T", " ", "1", "0", "0">>

\* cursor := "0" (the scans), cursor := "-" (SafeStream).
InitialCursor(f) == IF f = "SafeStream" THEN <<"-">> ELSE <<"0">>

\* Mutant of ListWindowEnd: the window ends at start+100, one index into the
\* next window.
ListWindowEndOverlap(st) == st + ListStep

\* LRANGE's last index: start+99.
ListWindowEnd(st) == st + ListWindowLast

\* Mutant of ListNextStart: the next window starts at the last index of
\* this one.
ListNextStartOverlap(st) == st + ListWindowLast

\* LRANGE's advance: start += 100.
ListNextStart(st) == st + ListStep

\* cmdStr := fmt.Sprintf(...), per iterator.
CommandLine(f, k, cur, st) ==
    CASE f = "SafeKeys" ->
           CmdName(f) \o <<" ">> \o cur \o <<" ", "M", "A", "T", "C", "H", " ">> \o k \o Count100
      [] f \in {"SafeSets", "SafeHash", "SafeSortedSets"} ->
           CmdName(f) \o <<" ">> \o k \o <<" ">> \o cur \o Count100
      [] f = "SafeList" ->
           CmdName(f) \o <<" ">> \o k \o <<" ">> \o FormatInt(st)
                      \o <<" ">> \o FormatInt(ListWindowEnd(st))
      [] f = "SafeStream" ->
           CmdName(f) \o <<" ">> \o k \o <<" ">> \o cur \o <<" ", "+">> \o Count100

\* cmd, _ := command.Parse(cmdStr, nil); c.Send(cmd) writes cmd.CommandBytes.
Request(f, k, cur, st) == Parse(CommandLine(f, k, cur, st)).CommandBytes

\* Mutant of ScanCursor: the Value field of element 0 is read instead of
\* its StringValue(), which an integer cursor does not keep.
ScanCursorRaw(array) == array.values[1].str

\* cursor = array.Values[0].StringValue()
ScanCursor(array) == StringValue(array.values[1])

\* Mutant of HashPairs: the fields and values are yielded one by one.
HashFlat(fields) == fields

\* Mutant of HashPairs: an unpaired last element is yielded in an array of
\* its own.
HashPairsKeepLast(fields) ==
    [j \in 1..((Len(fields) + 1) \div 2) |->
        IF 2 * j <= Len(fields)
        THEN RedisArray(<<fields[2 * j - 1], fields[2 * j]>>)
        ELSE RedisArray(<<fields[2 * j - 1]>>)]

\* SafeHash's loop: one RedisArray{field, value} per adjacent pair, an
\* unpaired last element is skipped.
HashPairs(fields) ==
    [j \in 1..(Len(fields) \div 2) |-> RedisArray(<<fields[2 * j - 1], fields[2 * j]>>)]

\* Mutant of ScanElems: every scan pairs its inner array.
ScanElemsPaired(f, inner) ==
    [j \in 1..(Len(inner) \div 2) |-> RedisArray(<<inner[2 * j - 1], inner[2 * j]>>)]

\* What the range loop of a scan yields for the inner array.
ScanElems(f, inner) == IF f = "SafeHash" THEN HashPairs(inner) ELSE inner

\* SafeStream: the last entry must be a non-empty array.
StreamLastOk(entries) ==
    /\ entries[Len(entries)].type = "array"
    /\ Len(entries[Len(entries)].values) # 0

\* Mutant of StreamNextCursor: the id of the page's first entry is used.
StreamNextCursorFirst(entries) ==
    IF entries[1].type = "array" /\ Len(entries[1].values) # 0
    THEN <<"(">> \o StringValue(entries[1].values[1])
    ELSE <<"(">>

\* cursor = "(" + lastEntry.Values[0].StringValue()
StreamNextCursor(entries) ==
    <<"(">> \o StringValue(entries[Len(entries)].values[1])

\* if cursor == "0" { break }
ScanFinished(cur) == cur = <<"0">>

(***************************************************************************)
(* Decoding a reply, up to the range loop.  kind "error": the element to   *)
(* yield before returning; kind "page": the loop variables and the         *)
(* elements to range over; kind "end": break before any yield.             *)
(***************************************************************************)
ErrorOut(v) == [kind |-> "error", elem |-> v, cursor |-> <<>>, elems |-> <<>>, entries |-> <<>>]

PageOut(cur, elems, entries) ==
    [kind |-> "page", elem |-> RedisNull, cursor |-> cur, elems |-> elems, entries |-> entries]

EndOut == [kind |-> "end", elem |-> RedisNull, cursor |-> <<>>, elems |-> <<>>, entries |-> <<>>]

\* RedisError{Value: "unexpected <CMD> <what>"}
Unexpected(f, what) == RedisError(<<"unexpected ">> \o CmdName(f) \o <<" ", what>>)

\* RedisError{Value: fmt.Sprintf("<CMD> send failed: %v", err)}, and "receive".
Failed(f, what) == RedisError(CmdName(f) \o <<" ", what, " failed">>)

DecodeScan(f, response, cur) ==
    IF response.type = "error" THEN ErrorOut(response)
    ELSE IF response.type # "array" \/ Len(response.values) < 2
    THEN ErrorOut(Unexpected(f, "response format"))
    ELSE IF response.values[2].type # "array"
    THEN ErrorOut(Unexpected(f, "inner array format"))
    ELSE PageOut(ScanCursor(response), ScanElems(f, response.values[2].values), <<>>)

DecodeRange(f, response, cur) ==
    IF response.type = "error" THEN ErrorOut(response)
    ELSE IF response.type # "array"
    THEN ErrorOut(Unexpected(f, "response format"))
    ELSE IF Len(response.values) = 0 THEN EndOut
    ELSE PageOut(cur, response.values, response.values)

Decode(f, response, cur) ==
    IF f \in ScanFamilies THEN DecodeScan(f, response, cur) ELSE DecodeRange(f, response, cur)

VARIABLES
    family,     \* the iterator-producing method that was called, "" before
    key,        \* its key or pattern argument
    pc,         \* "none", "created", "send", "recv", "yield", "done" (Subscribe: "ctx", "poll")
    cursor,     \* the closure's cursor variable
    start,      \* SafeList's start variable
    entries,    \* SafeStream: array.Values of the page being ranged over
    pending,    \* the elements of the page the range loop has not yielded yet
    terminal,   \* the element being yielded is followed by return
    cancelled,  \* ctx.Err() != nil
    cancelAt,   \* history: where the loop stood when the context was cancelled
    server,     \* "any": replies are arbitrary; "redis": a server holding list
    list,       \* the Redis list stored under ListKey (server = "redis")
    sent,       \* history: the CommandBytes written by Send, in order
    replies,    \* history: the values Receive returned, in order
    yielded,    \* history: the elements passed to yield, in order
    stopped,    \* history: the consumer returned false from yield
    failure,    \* history: "send" or "receive" once that call failed, else ""
    recvCalls,  \* history: Receive calls made
    pullSends,  \* history: Send calls since the consumer last asked for an element
    pullFrom    \* history: the number of replies received by then

\* The variables of one iterator run.
iterVars == <<family, key, pc, cursor, start, entries, pending, terminal, cancelled, cancelAt,
              server, list, sent, replies, yielded, stopped, failure, recvCalls, pullSends,
              pullFrom>>

(***************************************************************************)
(* The Connection at the level of bytes: the transport, its read deadline, *)
(* the bufio.Reader, and the library operation that is using it.           *)
(***************************************************************************)
VARIABLES
    op,         \* the operation in progress: "Connect", "GetKeyValue", ..., "" none
    cmd,        \* the command of its round trip in progress: "AUTH", "INFO", ...
    stage,      \* "idle", "send", "recv" (Receive called), "parse" (in ParseValue),
                \* "panic" (the operation panicked)
    timeout,    \* the timeout argument of the Receive in progress
    result,     \* Connect's return: "none" not yet, "conn" (c, nil), "error" (nil, err);
                \* "bare": a Connection built without Connect, its conn nil
    closed,     \* c.conn.Close() has been called
    broken,     \* the peer has closed or reset the transport
    deadline,   \* the read deadline of c.conn: "none", "armed"
    user,       \* Connect's user argument
    pass,       \* Connect's pass argument
    ServerInfo, \* c.ServerInfo: a map, NoMap for nil
    typeName,   \* GetKeyValue's typeName
    wire,       \* the commands written to the transport, in order, from the
                \* oldest whose reply the operation in progress may still meet
    frames,     \* history: what the server wrote from there on, frame by frame
    avail,      \* the bytes of that stream that have reached the client
    rpos,       \* the bytes of that stream the reader has consumed
    calls,      \* history: Receive calls begun after Connect returned
    polls,      \* the polls the Subscribe in progress has made
    lastRecv,   \* history: how the last Receive returned: "value", "timeout", "error"
    closeRets,  \* history: what each call of Close returned: "nil", "error"
    kv          \* GetKeyValue: the TYPE reply it read and what it returned

connVars == <<op, cmd, stage, timeout, result, closed, broken, deadline, user, pass,
              ServerInfo, typeName, wire, frames, avail, rpos, calls, polls, lastRecv,
              closeRets, kv>>

(***************************************************************************)
(* Two iterators obtained from the same call on the same Connection.       *)
(***************************************************************************)
VARIABLES
    its,        \* per iterator: its closure variables, position and history
    turn,       \* the iterator whose pull is running, 0 when none is
    served      \* history: the replies the server gave, with the iterator that got each

pairVars == <<its, turn, served>>

(***************************************************************************)
(* The codec on its own: one call of ParseValue, SendRaw or command.Parse. *)
(***************************************************************************)
VARIABLES
    codecCall,  \* the function called last: "", "ParseValue", "SendRaw", "Parse", "ReadBack"
    codecArg,   \* its argument: the bytes to decode, the arguments, the command text
    codecRet    \* what it returned or wrote

codecVars == <<codecCall, codecArg, codecRet>>

(***************************************************************************)
(* The command registry: command.Registry and the names merged into it.    *)
(***************************************************************************)
VARIABLES
    regDocs,    \* Registry.docs: the documentation records, in order
    regIndex,   \* Registry.index: command name -> position in regDocs
    regMerged,  \* history: the names MergeServerCommands has handed to mergeOne
    regCalls    \* history: the number of MergeServerCommands calls

regVars == <<regDocs, regIndex, regMerged, regCalls>>

(***************************************************************************)
(* output.PrintRedisValues: the consumer of an iterator, its counter, what *)
(* it wrote to w and what is left to read from r.                          *)
(***************************************************************************)
VARIABLES
    warningAt,  \* the warningAt argument
    printI,     \* the counter i
    printOut,   \* history: what was written to w, the question or an element
    reader,     \* the bytes r has not given yet
    answers     \* history: the answers read, trimmed

printVars == <<warningAt, printI, printOut, reader, answers>>

(***************************************************************************)
(* The TUI: the goroutines that use App.conn and the mutex App.connMu.     *)
(***************************************************************************)
VARIABLES
    connMu,     \* the goroutine that holds App.connMu, 0 when it is unlocked
    gos         \* per goroutine: the function it runs and its position in it

tuiVars == <<connMu, gos>>

(***************************************************************************)
(* The REPL and the goroutine handleSubscribe starts, on one Connection.   *)
(***************************************************************************)
VARIABLES
    replPc,     \* the REPL: "prompt", "readline" (in handleSubscribe), "recv"
    subPc,      \* the goroutine: "none", "ctx", "recv" (in c.Receive), "done"
    ctxDone,    \* cancel() was called
    inbox,      \* the frames that arrived and no Receive has consumed
    replSent,   \* the number of commands sent behind SUBSCRIBE
    subGot,     \* history: what the goroutine's Receive calls returned
    replGot     \* history: what the REPL's Receive calls returned

replVars == <<replPc, subPc, ctxDone, inbox, replSent, subGot, replGot>>

appVars == <<printVars, tuiVars, replVars>>

libVars == <<connVars, pairVars, codecVars, regVars>>

otherVars == <<libVars, appVars>>

vars == <<iterVars, connVars, pairVars, codecVars, regVars, appVars>>

(***************************************************************************)
(* The server of Spec: any reply to any request.  The elements of reply    *)
(* number p carry p and their position, so that every element of a run is  *)
(* distinct and a reordering, a repetition or a loss shows.                *)
(***************************************************************************)
Elem(p, i) == RedisBulkString(<<"e">> \o FormatNat(p) \o <<"-">> \o FormatNat(i))

Elems(p, n) == [i \in 1..n |-> Elem(p, i)]

\* A stream entry [id, [field, value]] with id "<p>-<i>".
Entry(p, i) ==
    RedisArray(<<RedisBulkString(FormatNat(p) \o <<"-">> \o FormatNat(i)),
                 RedisArray(<<RedisBulkString(<<"f">>), Elem(p, i)>>)>>)

\* Replies every cursor iterator rejects: an error value, a value that is
\* no array.
BadReplies == {RedisError(Msg("ERR")), RedisBulkString(<<"x">>), RedisNull}

\* Element 0 of a scan reply with n elements: the terminal cursor, a bulk
\* cursor and, with a one-element page, an integer cursor.
CursorsAt(p, n) ==
    {RedisBulkString(<<"0">>), RedisBulkString(FormatNat(p))}
    \cup (IF n = 1 THEN {RedisInteger(10 + p)} ELSE {})

ScanReplies(p) ==
    BadReplies
    \cup {RedisArray(<<RedisBulkString(<<"0">>)>>),
          RedisArray(<<RedisBulkString(<<"7">>), RedisBulkString(<<"x">>)>>)}
    \cup UNION {{RedisArray(<<c, RedisArray(Elems(p, n))>>) : c \in CursorsAt(p, n)} :
                    n \in 0..MaxPageLen}

ListReplies(p) == BadReplies \cup {RedisArray(Elems(p, n)) : n \in 0..MaxPageLen}

\* Entries that are not [id, fields]: a bulk string, an empty array.
BadEntries == {RedisBulkString(<<"x">>), RedisArray(<<>>)}

\* A page of n entries, all well-formed or with entry number bad replaced.
StreamPage(p, n, bad, b) ==
    RedisArray([i \in 1..n |-> IF i = bad THEN b ELSE Entry(p, i)])

StreamReplies(p) ==
    BadReplies
    \cup {StreamPage(p, n, 0, RedisNull) : n \in 0..MaxPageLen}
    \cup {StreamPage(p, n, bad, b) : n \in 1..MaxPageLen, bad \in 1..MaxPageLen, b \in BadEntries}

ServerReplies(f, p) ==
    CASE f \in ScanFamilies -> ScanReplies(p)
      [] f = "SafeList" -> ListReplies(p)
      [] f = "SafeStream" -> StreamReplies(p)

\* What a subscribed connection delivers: a message, an error value.
PushedValues(p) ==
    {RedisArray(<<RedisBulkString(<<"m">>), Elem(p, 1)>>), RedisError(Msg("ERR"))}

(***************************************************************************)
(* The server of SpecList: Redis holding one list under ListKey, answering *)
(* LRANGE key start stop with the elements at the 0-based indexes          *)
(* start..stop that exist (start, stop >= 0).                              *)
(***************************************************************************)
ListKey == <<"k">>

\* The list's element at 0-based index i is the bulk string "v<i>".
ListOf(n) == [i \in 1..n |-> RedisBulkString(<<"v">> \o FormatNat(i - 1))]

IsNat(s) == s # <<>> /\ \A i \in 1..Len(s) : IsDigit(s[i])

RECURSIVE ParseNat(_)
ParseNat(s) ==
    IF s = <<>> THEN 0
    ELSE 10 * ParseNat(SubSeq(s, 1, Len(s) - 1)) + DigitVal(s[Len(s)])

LRange(l, from, to) ==
    IF from >= Len(l) \/ from > to THEN <<>>
    ELSE SubSeq(l, from + 1, IF to >= Len(l) THEN Len(l) ELSE to + 1)

RedisReply(l, req) ==
    IF req.count # 4 \/ ToUpper(req.bulks[1].bytes) # <<"L", "R", "A", "N", "G", "E">>
    THEN RedisError(Msg("ERR wrong number of arguments"))
    ELSE IF ~IsNat(req.bulks[3].bytes) \/ ~IsNat(req.bulks[4].bytes)
    THEN RedisError(Msg("ERR value is not an integer or out of range"))
    ELSE IF req.bulks[2].bytes # ListKey THEN RedisArray(<<>>)
    ELSE RedisArray(LRange(l, ParseNat(req.bulks[3].bytes), ParseNat(req.bulks[4].bytes)))

\* Send calls one run may make: MaxReplies in Spec; against the Redis list
\* every request the scan of the longest list needs.
SendCap == IF server = "redis" THEN (MaxListLen \div ListStep) + 2 ELSE MaxReplies

\* The argument of the iterator-producing call: a pattern, a key (ones the
\* tokenizer leaves whole), none for Subscribe(ctx).
KeysOf(f) ==
    CASE f = "SafeKeys" -> {<<"*">>}
      [] f = "Subscribe" -> {<<>>}
      [] OTHER -> {ListKey}

(***************************************************************************)
(* The generator body between two yields.                                  *)
(***************************************************************************)
\* yield(v): the consumer holds v; term: the body returns after this yield.
Yield(v, rest, term) ==
    /\ pc' = "yield"
    /\ yielded' = Append(yielded, v)
    /\ pending' = rest
    /\ terminal' = term

\* return, or break out of the loop.
Return ==
    /\ pc' = "done"
    /\ pending' = <<>>
    /\ UNCHANGED <<yielded, terminal>>

\* The next iteration of the outer loop: build and send the next command.
Loop ==
    /\ pc' = "send"
    /\ pending' = <<>>
    /\ UNCHANGED <<yielded, terminal>>

\* The code after the range loop of a page.
AfterPage(f, cur, st, ents) ==
    CASE f \in ScanFamilies ->
           /\ IF ScanFinished(cur) THEN Return ELSE Loop
           /\ cursor' = cur /\ start' = st /\ entries' = <<>>
      [] f = "SafeList" ->
           /\ Loop
           /\ cursor' = cur /\ start' = ListNextStart(st) /\ entries' = <<>>
      [] f = "SafeStream" ->
           IF StreamLastOk(ents)
           THEN /\ Loop
                /\ cursor' = StreamNextCursor(ents) /\ start' = st /\ entries' = <<>>
           ELSE /\ Yield(Unexpected(f, "entry format"), <<>>, TRUE)
                /\ cursor' = cur /\ start' = st /\ entries' = <<>>

\* Mutant of Range: the loop runs over the page from its end.
RangeBackwards(f, elems, cur, st, ents) ==
    IF elems # <<>>
    THEN /\ Yield(elems[Len(elems)], SubSeq(elems, 1, Len(elems) - 1), FALSE)
         /\ cursor' = cur /\ start' = st /\ entries' = ents
    ELSE AfterPage(f, cur, st, ents)

\* The range loop over the elements left of a page.
Range(f, elems, cur, st, ents) ==
    IF elems # <<>>
    THEN /\ Yield(Head(elems), Tail(elems), FALSE)
         /\ cursor' = cur /\ start' = st /\ entries' = ents
    ELSE AfterPage(f, cur, st, ents)

(***************************************************************************)
(* Actions.                                                                *)
(***************************************************************************)
\* Mutant of Create: the first request is sent (Subscribe: the first poll
\* is made) when the iterator is created.
CreateEager(f, k) ==
    /\ UNCHANGED otherVars
    /\ pc = "none"
    /\ family' = f
    /\ key' = k
    /\ pc' = "created"
    /\ IF f = "Subscribe"
       THEN recvCalls' = 1 /\ sent' = sent
       ELSE recvCalls' = recvCalls /\ sent' = <<Request(f, k, InitialCursor(f), 0)>>
    /\ UNCHANGED <<cursor, start, entries, pending, terminal, cancelled, cancelAt, server,
                   list, replies, yielded, stopped, failure, pullSends, pullFrom>>

\* c.SafeKeys(pattern), c.SafeSets(key), ..., c.Subscribe(ctx): return the closure.
Create(f, k) ==
    /\ UNCHANGED otherVars
    /\ pc = "none"
    /\ family' = f
    /\ key' = k
    /\ pc' = "created"
    /\ UNCHANGED <<cursor, start, entries, pending, terminal, cancelled, cancelAt, server,
                   list, sent, replies, yielded, stopped, failure, recvCalls, pullSends,
                   pullFrom>>

\* for v := range seq: the body starts and runs to its first Send (Subscribe:
\* to its first ctx.Err()).
Start ==
    /\ UNCHANGED otherVars
    /\ pc = "created"
    /\ pc' = IF family = "Subscribe" THEN "ctx" ELSE "send"
    /\ cursor' = IF family = "Subscribe" THEN <<>> ELSE InitialCursor(family)
    /\ start' = 0
    /\ pullSends' = 0
    /\ pullFrom' = 0
    /\ UNCHANGED <<family, key, entries, pending, terminal, cancelled, cancelAt, server,
                   list, sent, replies, yielded, stopped, failure, recvCalls>>

\* c.Send(cmd) returns nil.
SendOk ==
    /\ UNCHANGED otherVars
    /\ pc = "send"
    /\ Len(sent) < SendCap
    /\ sent' = Append(sent, Request(family, key, cursor, start))
    /\ pc' = "recv"
    /\ pullSends' = pullSends + 1
    /\ UNCHANGED <<family, key, cursor, start, entries, pending, terminal,
                   cancelled, cancelAt, server, list, replies, yielded, stopped, failure, recvCalls,
                   pullFrom>>

\* c.Send(cmd) returns an error: yield the error element, return.
SendFail ==
    /\ UNCHANGED otherVars
    /\ pc = "send"
    /\ Yield(Failed(family, "send"), <<>>, TRUE)
    /\ pullSends' = pullSends + 1
    /\ failure' = "send"
    /\ UNCHANGED <<family, key, cursor, start, entries, cancelled, cancelAt, server, list,
                   sent, replies, stopped, recvCalls, pullFrom>>

\* Mutant of ReceiveFail: the request is sent again after a failed Receive.
ReceiveFailRetry ==
    /\ UNCHANGED otherVars
    /\ pc = "recv"
    /\ pc' = "send"
    /\ recvCalls' = recvCalls + 1
    /\ UNCHANGED <<family, key, cursor, start, entries, pending, terminal,
                   cancelled, cancelAt, server, list, sent, replies, yielded, stopped,
                   failure, pullSends, pullFrom>>

\* c.Receive(10s) returns an error: yield the error element, return.
ReceiveFail ==
    /\ UNCHANGED otherVars
    /\ pc = "recv"
    /\ Yield(Failed(family, "receive"), <<>>, TRUE)
    /\ recvCalls' = recvCalls + 1
    /\ failure' = "receive"
    /\ UNCHANGED <<family, key, cursor, start, entries, cancelled, cancelAt, server, list,
                   sent, replies, stopped, pullSends, pullFrom>>

\* The body from a received value to its next yield, Send or return.
OnReply(response) ==
    LET out == Decode(family, response, cursor) IN
    /\ UNCHANGED otherVars
    /\ replies' = Append(replies, response)
    /\ recvCalls' = recvCalls + 1
    /\ CASE out.kind = "error" ->
              /\ Yield(out.elem, <<>>, TRUE)
              /\ UNCHANGED <<cursor, start, entries>>
         [] out.kind = "end" ->
              /\ Return
              /\ UNCHANGED <<cursor, start, entries>>
         [] out.kind = "page" ->
              Range(family, out.elems, out.cursor, start, out.entries)
    /\ UNCHANGED <<family, key, cancelled, cancelAt, server, list, sent, stopped, failure,
                   pullSends, pullFrom>>

\* c.Receive(10s) returns a value: any the server may send.
ReceiveReply ==
    /\ pc = "recv"
    /\ server = "any"
    /\ \E response \in ServerReplies(family, Len(replies) + 1) : OnReply(response)

\* c.Receive(10s) returns the Redis server's reply to the command sent last.
ReceiveRedis ==
    /\ pc = "recv"
    /\ server = "redis"
    /\ OnReply(RedisReply(list, sent[Len(sent)]))

\* yield returned true: the consumer asks for the next element.
Resume ==
    /\ pc = "yield"
    /\ IF terminal
       THEN Return /\ UNCHANGED <<cursor, start, entries>>
       ELSE IF family = "Subscribe"
       THEN /\ pc' = "ctx"
            /\ UNCHANGED <<cursor, start, entries, pending, yielded, terminal>>
       ELSE Range(family, pending, cursor, start, entries)
    /\ pullSends' = 0
    /\ pullFrom' = Len(replies)
    /\ UNCHANGED <<family, key, cancelled, cancelAt, server, list, sent, replies, stopped, failure,
                   recvCalls>>

Continue ==
    /\ UNCHANGED otherVars
    /\ Resume

\* Mutant of Stop: yield's false is not looked at, the loop goes on.
StopIgnored ==
    /\ UNCHANGED otherVars
    /\ pc = "yield"
    /\ pc' = IF family = "Subscribe" THEN "ctx" ELSE "send"
    /\ stopped' = TRUE
    /\ UNCHANGED <<family, key, cursor, start, entries, pending, terminal, cancelled, cancelAt,
                   server, list, sent, replies, yielded, failure, recvCalls, pullSends,
                   pullFrom>>

\* yield returned false: the consumer stops; the body returns.
BreakOut ==
    /\ pc = "yield"
    /\ Return
    /\ stopped' = TRUE
    /\ UNCHANGED <<family, key, cursor, start, entries, cancelled, cancelAt, server, list,
                   sent, replies, failure, recvCalls, pullSends, pullFrom>>

Stop ==
    /\ UNCHANGED otherVars
    /\ BreakOut

(***************************************************************************)
(* Subscribe: check the context, poll with a 200ms read deadline, yield.   *)
(***************************************************************************)
\* cancelAt while the context is live.
NotCancelled == [pc |-> "", yielded |-> 0, recvCalls |-> 0]

\* The context is cancelled by its owner.
Cancel ==
    /\ UNCHANGED otherVars
    /\ family = "Subscribe"
    /\ pc # "done"
    /\ ~cancelled
    /\ cancelled' = TRUE
    /\ cancelAt' = [pc |-> pc, yielded |-> Len(yielded), recvCalls |-> recvCalls]
    /\ UNCHANGED <<family, key, pc, cursor, start, entries, pending, terminal,
                   server, list, sent, replies, yielded, stopped, failure, recvCalls,
                   pullSends, pullFrom>>

\* Mutant of CtxCheck: the context is not looked at before the poll.
CtxCheckSkipped ==
    /\ UNCHANGED otherVars
    /\ pc = "ctx"
    /\ pc' = "poll"
    /\ UNCHANGED <<family, key, cursor, start, entries, pending, terminal,
                   cancelled, cancelAt, server, list, sent, replies, yielded, stopped, failure,
                   recvCalls, pullSends, pullFrom>>

\* if err := ctx.Err(); err != nil { return }
CtxCheck ==
    /\ UNCHANGED otherVars
    /\ pc = "ctx"
    /\ pc' = IF cancelled THEN "done" ELSE "poll"
    /\ UNCHANGED <<family, key, cursor, start, entries, pending, terminal,
                   cancelled, cancelAt, server, list, sent, replies, yielded, stopped, failure,
                   recvCalls, pullSends, pullFrom>>

\* Mutant of PollTimeout: after a timeout the next Receive is made without
\* a look at the context.
PollTimeoutRetries ==
    /\ UNCHANGED otherVars
    /\ pc = "poll"
    /\ recvCalls < MaxReplies
    /\ pc' = "poll"
    /\ recvCalls' = recvCalls + 1
    /\ UNCHANGED <<family, key, cursor, start, entries, pending, terminal,
                   cancelled, cancelAt, server, list, sent, replies, yielded, stopped,
                   failure, pullSends, pullFrom>>

\* c.Receive(200ms) fails with a timeout: continue.
PollTimeout ==
    /\ UNCHANGED otherVars
    /\ pc = "poll"
    /\ recvCalls < MaxReplies
    /\ pc' = "ctx"
    /\ recvCalls' = recvCalls + 1
    /\ UNCHANGED <<family, key, cursor, start, entries, pending, terminal,
                   cancelled, cancelAt, server, list, sent, replies, yielded, stopped, failure,
                   pullSends, pullFrom>>

\* Mutant of PollFail: every error of Receive is taken for a timeout.
PollFailContinues ==
    /\ UNCHANGED otherVars
    /\ pc = "poll"
    /\ recvCalls < MaxReplies
    /\ pc' = "ctx"
    /\ recvCalls' = recvCalls + 1
    /\ failure' = "receive"
    /\ UNCHANGED <<family, key, cursor, start, entries, pending, terminal,
                   cancelled, cancelAt, server, list, sent, replies, yielded, stopped, pullSends,
                   pullFrom>>

\* c.Receive(200ms) fails with another error: yield it, return.
PollFail ==
    /\ UNCHANGED otherVars
    /\ pc = "poll"
    /\ recvCalls < MaxReplies
    /\ Yield(RedisError(Msg("EOF")), <<>>, TRUE)
    /\ recvCalls' = recvCalls + 1
    /\ failure' = "receive"
    /\ UNCHANGED <<family, key, cursor, start, entries, cancelled, cancelAt, server, list,
                   sent, replies, stopped, pullSends, pullFrom>>

\* c.Receive(200ms) returns a value: yield it.
PollValue ==
    /\ UNCHANGED otherVars
    /\ pc = "poll"
    /\ recvCalls < MaxReplies
    /\ \E response \in PushedValues(Len(replies) + 1) :
          /\ replies' = Append(replies, response)
          /\ Yield(response, <<>>, FALSE)
    /\ recvCalls' = recvCalls + 1
    /\ UNCHANGED <<family, key, cursor, start, entries, cancelled, cancelAt, server, list,
                   sent, stopped, failure, pullSends, pullFrom>>

\* c.ServerInfo before any assignment: the nil map, which holds no key.
NoMap == <<>>

\* No iterator has been created.
IdleIter ==
    /\ family = ""
    /\ key = <<>>
    /\ pc = "none"
    /\ cursor = <<>>
    /\ start = 0
    /\ entries = <<>>
    /\ pending = <<>>
    /\ terminal = FALSE
    /\ cancelled = FALSE
    /\ cancelAt = NotCancelled
    /\ server = "any"
    /\ list = <<>>
    /\ sent = <<>>
    /\ replies = <<>>
    /\ yielded = <<>>
    /\ stopped = FALSE
    /\ failure = ""
    /\ recvCalls = 0
    /\ pullSends = 0
    /\ pullFrom = 0

\* No Connection has been made.
\* GetKeyValue has not returned: base is the number of commands written
\* before it was called, typeReply the value its first Receive returned,
\* single and collection its results (NoValue for nil, collection the name
\* of the iterator method, "" for nil), err whether its error is non-nil.
NoCall ==
    [base |-> 0, typeReply |-> NoValue, single |-> NoValue, collection |-> "",
     err |-> FALSE, returned |-> FALSE]

IdleConn ==
    /\ op = ""
    /\ cmd = ""
    /\ stage = "idle"
    /\ timeout = 0
    /\ result = "none"
    /\ closed = FALSE
    /\ broken = FALSE
    /\ deadline = "none"
    /\ user = <<>>
    /\ pass = <<>>
    /\ ServerInfo = NoMap
    /\ typeName = <<>>
    /\ wire = <<>>
    /\ frames = <<>>
    /\ avail = 0
    /\ rpos = 0
    /\ calls = 0
    /\ polls = 0
    /\ lastRecv = ""
    /\ closeRets = <<>>
    /\ kv = NoCall

\* No pair of iterators has been created.
IdlePair ==
    /\ its = <<>>
    /\ turn = 0
    /\ served = <<>>

\* No function of the codec has been called.
IdleCodec ==
    /\ codecCall = ""
    /\ codecArg = <<>>
    /\ codecRet = <<>>

\* NewRegistry has not run.
NoRegistry ==
    /\ regDocs = <<>>
    /\ regIndex = [n \in {} |-> 0]
    /\ regMerged = {}
    /\ regCalls = 0

\* PrintRedisValues has not been called.
IdlePrint ==
    /\ warningAt = 0
    /\ printI = 0
    /\ printOut = <<>>
    /\ reader = <<>>
    /\ answers = <<>>

\* Goroutine 1 runs the event loop; the others run loadKeys when started.
MaxLoaders == 2

UI == 1

Loaders == 2..(MaxLoaders + 1)

Resting == [fn |-> "", pc |-> "idle"]

\* tui.Run has loaded the keys and entered app.Run(): the event loop waits
\* for an event, connMu is unlocked, no loadKeys runs.
IdleTui ==
    /\ connMu = 0
    /\ gos = [g \in {UI} \cup Loaders |-> Resting]

\* The REPL waits at its prompt; SUBSCRIBE has not been entered.
IdleRepl ==
    /\ replPc = "prompt"
    /\ subPc = "none"
    /\ ctxDone = FALSE
    /\ inbox = <<>>
    /\ replSent = 0
    /\ subGot = <<>>
    /\ replGot = <<>>

IdleApp == IdlePrint /\ IdleTui /\ IdleRepl

Init ==
    /\ IdleIter
    /\ IdleConn
    /\ IdlePair
    /\ IdleCodec
    /\ NoRegistry
    /\ IdleApp

Next ==
    \/ \E f \in Families : \E k \in KeysOf(f) : Create(f, k)
    \/ Start
    \/ SendOk
    \/ SendFail
    \/ ReceiveFail
    \/ ReceiveReply
    \/ Continue
    \/ Stop
    \/ Cancel
    \/ CtxCheck
    \/ PollTimeout
    \/ PollFail
    \/ PollValue

Spec == Init /\ [][Next]_vars

(***************************************************************************)
(* SpecList: SafeList drained against a Redis server that holds a list of  *)
(* 0..MaxListLen elements under ListKey and does not change it.            *)
(***************************************************************************)
InitList ==
    /\ family = ""
    /\ key = <<>>
    /\ pc = "none"
    /\ cursor = <<>>
    /\ start = 0
    /\ entries = <<>>
    /\ pending = <<>>
    /\ terminal = FALSE
    /\ cancelled = FALSE
    /\ cancelAt = NotCancelled
    /\ server = "redis"
    /\ list \in {ListOf(n) : n \in 0..MaxListLen}
    /\ sent = <<>>
    /\ replies = <<>>
    /\ yielded = <<>>
    /\ stopped = FALSE
    /\ failure = ""
    /\ recvCalls = 0
    /\ pullSends = 0
    /\ pullFrom = 0
    /\ IdleConn
    /\ IdlePair
    /\ IdleCodec
    /\ NoRegistry
    /\ IdleApp

NextList ==
    \/ Create("SafeList", ListKey)
    \/ Start
    \/ SendOk
    \/ ReceiveRedis
    \/ Continue
    \/ Stop

SpecList == InitList /\ [][NextList]_vars
(***************************************************************************)
(* What the claims are stated in: the requests as token lists, the pages   *)
(* as the specification describes them.                                    *)
(***************************************************************************)
Last(q) == q[Len(q)]

IsPrefix(a, b) == Len(a) <= Len(b) /\ SubSeq(b, 1, Len(a)) = a

RECURSIVE ConcatAll(_)
ConcatAll(qs) == IF qs = <<>> THEN <<>> ELSE Head(qs) \o ConcatAll(Tail(qs))

\* The bulk-string payloads of a written command, in order.
TokensOf(req) == [i \in 1..req.count |-> req.bulks[i].bytes]

\* The text of a cursor or id element.
TextOf(v) == IF v.type = "integer" THEN FormatNat(v.int) ELSE v.str

\* [nextCursor, [elements...]]
IsTuplePage(r) ==
    r.type = "array" /\ Len(r.values) >= 2 /\ r.values[2].type = "array"

\* [id, [f, v, ...]]
IsEntry(e) == e.type = "array" /\ Len(e.values) >= 1

\* The shape the family's table row requires of a reply.
HasShape(f, r) ==
    CASE f \in ScanFamilies -> IsTuplePage(r)
      [] f = "SafeList" -> r.type = "array"
      [] f = "SafeStream" ->
           r.type = "array" /\ \A i \in 1..Len(r.values) : IsEntry(r.values[i])

\* The elements a reply contributes to the sequence.
PageElems(f, r) ==
    CASE f \in {"SafeKeys", "SafeSets", "SafeSortedSets"} ->
           IF IsTuplePage(r) THEN r.values[2].values ELSE <<>>
      [] f = "SafeHash" ->
           IF IsTuplePage(r)
           THEN [j \in 1..(Len(r.values[2].values) \div 2) |->
                    RedisArray(<<r.values[2].values[2 * j - 1], r.values[2].values[2 * j]>>)]
           ELSE <<>>
      [] f \in {"SafeList", "SafeStream"} ->
           IF r.type = "array" THEN r.values ELSE <<>>

\* The elements of the first n replies, page after page.
ElemsOfFirst(n) == ConcatAll([i \in 1..n |-> PageElems(family, replies[i])])

\* The yielded elements that are no error element.
DataYielded == SelectSeq(yielded, LAMBDA v : v.type # "error")

\* The iterator ran to its end and the consumer never stopped it.
Drained == pc = "done" /\ ~stopped

(***************************************************************************)
(* resp.ParseValue over the bytes that have reached the reader.  s is the  *)
(* server's stream up to the last byte that has arrived, pos the index of  *)
(* the first byte not yet consumed.  The result is "ok" with the value,    *)
(* "error" (a decode error), or "short": the read blocks for want of       *)
(* bytes; next is the index of the first byte left unconsumed.  A read     *)
(* that blocks has consumed every byte that had arrived (ReadByte,         *)
(* ReadString and io.ReadFull keep nothing back).                          *)
(***************************************************************************)
CRLF == <<"\r", "\n">>

Ok(v, next) == [st |-> "ok", val |-> v, next |-> next]

Bad(next) == [st |-> "error", val |-> NoValue, next |-> next]

Short(s) == [st |-> "short", val |-> NoValue, next |-> Len(s) + 1]

\* The largest length make([]byte, length) accepts: above it the runtime
\* panics (makeslice: len out of range).  The runtime's limit, 2^48 bytes on
\* linux/amd64, is scaled to the byte strings of the model.
MakeLimit == 9

\* make panicked: ParseValue does not return.
Panic(next) == [st |-> "panic", val |-> NoValue, next |-> next]

\* What strconv.Atoi and strconv.ParseInt accept: an optional sign, digits.
IsInt(s) == s # <<>> /\ IsNat(IF s[1] \in {"-", "+"} THEN Tail(s) ELSE s)

Atoi(s) ==
    IF s[1] = "-" THEN 0 - ParseNat(Tail(s))
    ELSE IF s[1] = "+" THEN ParseNat(Tail(s))
    ELSE ParseNat(s)

\* r.ReadString('\n'), then strings.TrimSuffix(line, "\r\n").
readLine(s, pos) ==
    LET nl == {i \in pos..Len(s) : s[i] = "\n"} IN
    IF nl = {} THEN [st |-> "short", line |-> <<>>, next |-> Len(s) + 1]
    ELSE LET e == Min(nl)
             raw == SubSeq(s, pos, e)
         IN [st |-> "ok",
             line |-> IF Len(raw) >= 2 /\ SubSeq(raw, Len(raw) - 1, Len(raw)) = CRLF
                      THEN SubSeq(raw, 1, Len(raw) - 2)
                      ELSE raw,
             next |-> e + 1]

parseSimpleString(s, pos) ==
    LET l == readLine(s, pos) IN
    IF l.st = "short" THEN Short(s) ELSE Ok(RedisString(l.line), l.next)

parseError(s, pos) ==
    LET l == readLine(s, pos) IN
    IF l.st = "short" THEN Short(s) ELSE Ok(RedisError(l.line), l.next)

parseInteger(s, pos) ==
    LET l == readLine(s, pos) IN
    IF l.st = "short" THEN Short(s)
    ELSE IF ~IsInt(l.line) THEN Bad(l.next)
    ELSE Ok(RedisInteger(Atoi(l.line)), l.next)

\* Mutant of parseBulkString: every negative length is taken for null.
parseBulkStringNegNull(s, pos) ==
    LET l == readLine(s, pos) IN
    IF l.st = "short" THEN Short(s)
    ELSE IF ~IsInt(l.line) THEN Bad(l.next)
    ELSE LET length == Atoi(l.line) IN
         IF length < 0 THEN Ok(RedisNull, l.next)
         ELSE IF Len(s) < l.next + length + 1 THEN Short(s)
         ELSE IF SubSeq(s, l.next + length, l.next + length + 1) # CRLF
         THEN Bad(l.next + length + 2)
         ELSE Ok([RedisBulkString(SubSeq(s, l.next, l.next + length - 1))
                     EXCEPT !.int = length],
                 l.next + length + 2)

\* Mutant of parseBulkString: the payload is read as a line, up to the
\* first LF, and not by its declared length.
parseBulkStringByLine(s, pos) ==
    LET l == readLine(s, pos) IN
    IF l.st = "short" THEN Short(s)
    ELSE IF ~IsInt(l.line) THEN Bad(l.next)
    ELSE LET length == Atoi(l.line) IN
         IF length = -1 THEN Ok(RedisNull, l.next)
         ELSE IF length < -1 THEN Bad(l.next)
         ELSE LET payload == readLine(s, l.next) IN
              IF payload.st = "short" THEN Short(s)
              ELSE Ok([RedisBulkString(payload.line) EXCEPT !.int = length], payload.next)

\* Mutant of parseBulkString: the two bytes behind the payload are skipped
\* and not compared with CRLF.
parseBulkStringUnchecked(s, pos) ==
    LET l == readLine(s, pos) IN
    IF l.st = "short" THEN Short(s)
    ELSE IF ~IsInt(l.line) THEN Bad(l.next)
    ELSE LET length == Atoi(l.line) IN
         IF length = -1 THEN Ok(RedisNull, l.next)
         ELSE IF length < -1 THEN Bad(l.next)
         ELSE IF length > MakeLimit THEN Panic(l.next)
         ELSE IF Len(s) < l.next + length + 1 THEN Short(s)
         ELSE Ok([RedisBulkString(SubSeq(s, l.next, l.next + length - 1))
                     EXCEPT !.int = length],
                 l.next + length + 2)

parseBulkString(s, pos) ==
    LET l == readLine(s, pos) IN
    IF l.st = "short" THEN Short(s)
    ELSE IF ~IsInt(l.line) THEN Bad(l.next)
    ELSE LET length == Atoi(l.line) IN
         IF length = -1 THEN Ok(RedisNull, l.next)
         ELSE IF length < -1 THEN Bad(l.next)
         ELSE IF length > MakeLimit THEN Panic(l.next)
         ELSE IF Len(s) < l.next + length + 1 THEN Short(s)
         ELSE IF SubSeq(s, l.next + length, l.next + length + 1) # CRLF
         THEN Bad(l.next + length + 2)
         ELSE Ok([RedisBulkString(SubSeq(s, l.next, l.next + length - 1))
                     EXCEPT !.int = length],
                 l.next + length + 2)

RECURSIVE ParseValue(_, _)
RECURSIVE parseElements(_, _, _, _)

\* Mutant of parseElements: when an element fails, the array of the
\* elements decoded so far is returned.
RECURSIVE parseElementsPartial(_, _, _, _)
parseElementsPartial(s, pos, count, values) ==
    IF count = 0 THEN Ok(RedisArray(values), pos)
    ELSE LET e == ParseValue(s, pos) IN
         IF e.st # "ok" THEN Ok(RedisArray(values), e.next)
         ELSE parseElementsPartial(s, e.next, count - 1, Append(values, e.val))

\* parseArray's loop: count more elements, values holds the ones decoded.
parseElements(s, pos, count, values) ==
    IF count = 0 THEN Ok(RedisArray(values), pos)
    ELSE LET e == ParseValue(s, pos) IN
         IF e.st # "ok" THEN e
         ELSE parseElements(s, e.next, count - 1, Append(values, e.val))

\* Mutant of parseArray: a count of 0 is taken for the null array too.
parseArrayEmptyNull(s, pos) ==
    LET l == readLine(s, pos) IN
    IF l.st = "short" THEN Short(s)
    ELSE IF ~IsInt(l.line) THEN Bad(l.next)
    ELSE LET count == Atoi(l.line) IN
         IF count = -1 \/ count = 0 THEN Ok(RedisNull, l.next)
         ELSE IF count < -1 THEN Bad(l.next)
         ELSE parseElements(s, l.next, count, <<>>)

parseArray(s, pos) ==
    LET l == readLine(s, pos) IN
    IF l.st = "short" THEN Short(s)
    ELSE IF ~IsInt(l.line) THEN Bad(l.next)
    ELSE LET count == Atoi(l.line) IN
         IF count = -1 THEN Ok(RedisNull, l.next)
         ELSE IF count < -1 THEN Bad(l.next)
         ELSE IF count > MakeLimit THEN Panic(l.next)
         ELSE parseElements(s, l.next, count, <<>>)

ParseValue(s, pos) ==
    IF pos > Len(s) THEN Short(s)
    ELSE CASE s[pos] = "+" -> parseSimpleString(s, pos + 1)
           [] s[pos] = "-" -> parseError(s, pos + 1)
           [] s[pos] = ":" -> parseInteger(s, pos + 1)
           [] s[pos] = "$" -> parseBulkString(s, pos + 1)
           [] s[pos] = "*" -> parseArray(s, pos + 1)
           [] OTHER -> Bad(pos + 1)

(***************************************************************************)
(* The server's writer: the RESP frame of a value.                         *)
(***************************************************************************)
RECURSIVE Encode(_)
Encode(v) ==
    CASE v.type = "string" -> <<"+">> \o v.str \o CRLF
      [] v.type = "error" -> <<"-">> \o v.str \o CRLF
      [] v.type = "integer" -> <<":">> \o FormatInt(v.int) \o CRLF
      [] v.type = "bulk" -> <<"$">> \o FormatInt(Len(v.str)) \o CRLF \o v.str \o CRLF
      [] v.type = "null" -> <<"$", "-", "1">> \o CRLF
      [] v.type = "array" ->
           <<"*">> \o FormatInt(Len(v.values)) \o CRLF
                   \o ConcatAll([i \in 1..Len(v.values) |-> Encode(v.values[i])])

(***************************************************************************)
(* The Connection and the operations that use it.                          *)
(***************************************************************************)
\* Bounds of the specification SpecConn.
\* Most Receive calls made on a Connection after Connect returned it.
MaxCalls == 1
\* Most polls one Subscribe makes.
MaxPolls == 2
\* Most messages the server pushes to a subscribed Connection.
MaxPushes == 1
\* Most calls of Close.
MaxCloses == 2

\* Receive's timeout arguments, in seconds (200ms is any value above 0).
AuthTimeout == 5
InfoTimeout == 5
KeyTimeout == 5
PageTimeout == 10
PollTimeoutMs == 200

ErrorKey == <<"e", "r", "r", "o", "r">>

\* map[string]string{"error": err.Error()}
ErrorMap == [k \in {ErrorKey} |-> <<"err">>]

\* strings.Split(s, sep).
RECURSIVE Split(_, _)
Split(s, sep) ==
    LET i == Index(s, sep) IN
    IF i = 0 THEN <<s>>
    ELSE <<SubSeq(s, 1, i - 1)>> \o Split(SubSeq(s, i + Len(sep), Len(s)), sep)

\* getServerInfo's loop over the lines: blank lines and "#" lines are
\* skipped, a line with a ":" sets the key before it to the text after it.
RECURSIVE InfoFrom(_, _)
InfoFrom(lines, m) ==
    IF lines = <<>> THEN m
    ELSE LET line == TrimSpace(Head(lines))
             colon == Index(line, <<":">>)
         IN IF line = <<>> \/ line[1] = "#" \/ colon = 0
            THEN InfoFrom(Tail(lines), m)
            ELSE LET k == SubSeq(line, 1, colon - 1)
                     v == SubSeq(line, colon + 1, Len(line))
                 IN InfoFrom(Tail(lines),
                             [x \in (DOMAIN m) \cup {k} |-> IF x = k THEN v ELSE m[x]])

\* c.ServerInfo = make(map[string]string), filled from bulkStr.Value.
InfoMap(text) == InfoFrom(Split(text, CRLF), [x \in {} |-> <<>>])

\* fmt.Sprintf("TYPE %s", key), fmt.Sprintf("GET %s", key).
KeyCommand(name, k) == name \o <<" ">> \o k

\* The text handed to command.Parse for the command of a round trip.
CommandText(c, u, p) ==
    CASE c = "AUTH" ->
           IF u = <<>>
           THEN <<"A", "U", "T", "H", " ">> \o p
           ELSE <<"A", "U", "T", "H", " ">> \o u \o <<" ">> \o p
      [] c = "INFO" -> <<"I", "N", "F", "O">>
      [] c = "TYPE" -> KeyCommand(<<"T", "Y", "P", "E">>, ListKey)
      [] c = "GET" -> KeyCommand(<<"G", "E", "T">>, ListKey)
      [] c = "COMMAND" -> <<"C", "O", "M", "M", "A", "N", "D">>
      [] c = "SSCAN" -> CommandLine("SafeSets", ListKey, <<"0">>, 0)
      [] c = "PING" -> <<"P", "I", "N", "G">>
      [] c = "BLPOP" -> <<"B", "L", "P", "O", "P", " ">> \o ListKey \o <<" ", "0">>

\* The timeout the operation passes to Receive for this command.
TimeoutOf(c) ==
    CASE c = "AUTH" -> AuthTimeout
      [] c = "INFO" -> InfoTimeout
      [] c \in {"TYPE", "GET", "PING"} -> KeyTimeout
      [] c \in {"COMMAND", "SSCAN"} -> PageTimeout
      [] c = "POLL" -> PollTimeoutMs
      [] c = "BLPOP" -> 0

\* The operations made on a Connection that Connect returned, each with the
\* command of its first round trip.
FirstCommand(o) ==
    CASE o = "GetKeyValue" -> {"TYPE"}
      [] o = "FetchServerCommands" -> {"COMMAND"}
      [] o = "SafeSets" -> {"SSCAN"}
      [] o = "Command" -> {"PING", "BLPOP"}
      [] o = "Subscribe" -> {"POLL"}

Operations == {"GetKeyValue", "FetchServerCommands", "SafeSets", "Command", "Subscribe"}

\* Connect's arguments: no password, a password, a user and a password, a
\* password that holds a space.
Credentials ==
    {<< <<>>, <<>> >>, << <<>>, <<"p", "w">> >>, << <<"u">>, <<"p", "w">> >>,
     << <<>>, <<"p", " ", "w">> >>}

(***************************************************************************)
(* The server of SpecConn: it answers every command it has read with one   *)
(* frame, in order; the frames reach the client in pieces.                 *)
(***************************************************************************)
OkString == RedisString(<<"O", "K">>)

ErrReply == RedisError(<<"E", "R", "R">>)

\* The type names TYPE answers with, and one that GetKeyValue does not know.
TypeNames ==
    {<<"s", "t", "r", "i", "n", "g">>, <<"l", "i", "s", "t">>, <<"s", "e", "t">>,
     <<"z", "s", "e", "t">>, <<"h", "a", "s", "h">>, <<"s", "t", "r", "e", "a", "m">>,
     <<"n", "o", "n", "e">>, <<"j", "s", "o", "n">>}

RepliesTo(name) ==
    CASE name = <<"A", "U", "T", "H">> ->
           {OkString, ErrReply, RedisString(<<"N", "O">>), RedisBulkString(<<"O", "K">>)}
      [] name = <<"I", "N", "F", "O">> ->
           {RedisBulkString(<<"a", ":", "1">>), ErrReply}
      [] name = <<"T", "Y", "P", "E">> ->
           {RedisString(t) : t \in TypeNames} \cup {RedisInteger(1), ErrReply}
      [] name = <<"G", "E", "T">> -> {RedisBulkString(<<"v">>)}
      [] name = <<"C", "O", "M", "M", "A", "N", "D">> -> {RedisArray(<<>>)}
      [] name = <<"S", "S", "C", "A", "N">> ->
           {RedisArray(<<RedisBulkString(<<"0">>), RedisArray(<<>>)>>)}
      [] name = <<"P", "I", "N", "G">> -> {RedisString(<<"P", "O", "N", "G">>)}
      [] name = <<"B", "L", "P", "O", "P">> -> {RedisNull}
      [] OTHER -> {ErrReply}

PushedMessage == RedisArray(<<RedisBulkString(<<"m">>)>>)

\* A frame that declares a length above what make accepts.
OversizeFrame == <<"$">> \o FormatInt(MakeLimit + 1) \o CRLF

\* The frames the server answers a command with.
FramesTo(name) == {Encode(v) : v \in RepliesTo(name)}

\* Every byte the server has written, and the part of it that has arrived.
Stream == ConcatAll([i \in 1..Len(frames) |-> frames[i].bytes])

Arrived == SubSeq(Stream, 1, avail)

\* The commands the server has answered; the messages it has pushed.
Answered == Cardinality({i \in 1..Len(frames) : frames[i].cmd # 0})

Pushed == Cardinality({i \in 1..Len(frames) : frames[i].cmd = 0})

\* Where the bytes of frame i end in the server's stream.
FrameEnd(i) == Len(ConcatAll([j \in 1..i |-> frames[j].bytes]))

\* The frames the reader has consumed whole, and the commands among those
\* they answer: the exchanges that are over.  The next operation starts
\* with the rest: the commands not yet answered or answered and not yet
\* read, the frames not yet read, and the positions counted from there.
ReadFrames == Cardinality({i \in 1..Len(frames) : FrameEnd(i) <= rpos})

ReadCommands == Cardinality({i \in 1..ReadFrames : frames[i].cmd # 0})

Outstanding ==
    [wire   |-> SubSeq(wire, ReadCommands + 1, Len(wire)),
     frames |-> [i \in 1..(Len(frames) - ReadFrames) |->
                   [bytes |-> frames[i + ReadFrames].bytes,
                    cmd   |-> IF frames[i + ReadFrames].cmd = 0 THEN 0
                              ELSE frames[i + ReadFrames].cmd - ReadCommands]],
     avail  |-> avail - FrameEnd(ReadFrames),
     rpos   |-> rpos - FrameEnd(ReadFrames)]

(***************************************************************************)
(* Where an operation stands when a Send or a Receive has returned.        *)
(***************************************************************************)
Keep ==
    [op |-> op, cmd |-> cmd, stage |-> stage, result |-> result, closed |-> closed,
     info |-> ServerInfo, typeName |-> typeName, closes |-> closeRets, kv |-> kv]

Goto(n) ==
    /\ op' = n.op
    /\ cmd' = n.cmd
    /\ stage' = n.stage
    /\ result' = n.result
    /\ closed' = n.closed
    /\ ServerInfo' = n.info
    /\ typeName' = n.typeName
    /\ closeRets' = n.closes
    /\ kv' = n.kv

\* The operation returns to its caller.
Returned == [Keep EXCEPT !.op = "", !.cmd = "", !.stage = "idle"]

\* Mutant of AuthFailed: the error is returned and the transport left open.
AuthFailedOpen == [Returned EXCEPT !.result = "error"]

\* What Close returns: nil when no transport was set; c.conn.Close()
\* otherwise, which on a TCP transport is nil for the call that closes it
\* and an error (use of closed network connection) for every later call.
CloseReturn == IF result = "bare" THEN "nil" ELSE IF closed THEN "error" ELSE "nil"

\* c.Close(); return nil, fmt.Errorf(...)
AuthFailed ==
    [Returned EXCEPT !.result = "error", !.closed = TRUE,
                     !.closes = Append(closeRets, CloseReturn)]

\* Mutant of InfoFailed: Connect closes and fails when INFO fails.
InfoFailedFatal == [Returned EXCEPT !.result = "error", !.closed = TRUE]

\* c.ServerInfo = map[string]string{"error": err.Error()}; return c, nil
InfoFailed == [Returned EXCEPT !.result = "conn", !.info = ErrorMap]

\* Mutant of CollectionOf: a sorted set is handed to SafeSets.
CollectionOfSwapped(t) ==
    CASE t = <<"l", "i", "s", "t">> -> "SafeList"
      [] t = <<"s", "e", "t">> -> "SafeSets"
      [] t = <<"z", "s", "e", "t">> -> "SafeSets"
      [] t = <<"h", "a", "s", "h">> -> "SafeHash"
      [] t = <<"s", "t", "r", "e", "a", "m">> -> "SafeStream"
      [] OTHER -> ""

\* GetKeyValue's switch on typeName: the iterator method it returns, "" for
\* the cases that return no collection.
CollectionOf(t) ==
    CASE t = <<"l", "i", "s", "t">> -> "SafeList"
      [] t = <<"s", "e", "t">> -> "SafeSets"
      [] t = <<"z", "s", "e", "t">> -> "SafeSortedSets"
      [] t = <<"h", "a", "s", "h">> -> "SafeHash"
      [] t = <<"s", "t", "r", "e", "a", "m">> -> "SafeStream"
      [] OTHER -> ""

\* GetKeyValue returns an error: single and collection are nil.
KeyError == [Returned EXCEPT !.kv.err = TRUE, !.kv.returned = TRUE]

\* A Send or a Receive returned an error; timedOut: a net.Error whose
\* Timeout() is true.
OnFailure(c, timedOut) ==
    CASE c = "AUTH" -> AuthFailed
      [] c = "INFO" -> InfoFailed
      [] c = "POLL" -> IF timedOut THEN [Keep EXCEPT !.stage = "ctx"] ELSE Returned
      [] c = "TYPE" -> [KeyError EXCEPT !.typeName = <<>>]
      [] c = "GET" -> KeyError
      [] OTHER -> Returned

\* Receive returned the value v.
OnValue(c, v) ==
    CASE c = "AUTH" ->
           IF v.type = "error" THEN AuthFailed
           ELSE IF v.type # "string" \/ v.str # <<"O", "K">> THEN AuthFailed
           ELSE [Keep EXCEPT !.cmd = "INFO", !.stage = "send"]
      [] c = "INFO" ->
           IF v.type # "bulk" THEN InfoFailed
           ELSE [Returned EXCEPT !.result = "conn", !.info = InfoMap(v.str)]
      [] c = "TYPE" ->
           IF v.type = "error" \/ v.type # "string"
           THEN [KeyError EXCEPT !.typeName = <<>>, !.kv.typeReply = v]
           ELSE IF v.str = <<"s", "t", "r", "i", "n", "g">>
           THEN [Keep EXCEPT !.cmd = "GET", !.stage = "send", !.typeName = v.str,
                             !.kv.typeReply = v]
           ELSE IF CollectionOf(v.str) # ""
           THEN [Returned EXCEPT !.typeName = v.str, !.kv.typeReply = v,
                                 !.kv.collection = CollectionOf(v.str),
                                 !.kv.returned = TRUE]
           ELSE [KeyError EXCEPT !.typeName = v.str, !.kv.typeReply = v]
      [] c = "GET" -> [Returned EXCEPT !.kv.single = v, !.kv.returned = TRUE]
      [] c = "POLL" -> [Keep EXCEPT !.stage = "yield"]
      [] OTHER -> Returned

\* Mutant of DeadlineAfter: the deadline is cleared only when a value was
\* decoded.
DeadlineAfterValue(outcome) == IF outcome = "value" THEN "none" ELSE deadline

\* defer c.conn.SetReadDeadline(time.Time{}): whatever ParseValue returned,
\* the deadline is cleared (Receive(0) armed none and clears none).
DeadlineAfter(outcome) == "none"

UnchangedIter == UNCHANGED <<iterVars, pairVars, codecVars, regVars, appVars>>

(***************************************************************************)
(* Connect, up to its first Send.                                          *)
(***************************************************************************)
\* net.Dial succeeded; c := &Connection{...}.
Dial(u, p) ==
    /\ UnchangedIter
    /\ result = "none"
    /\ op = ""
    /\ op' = "Connect"
    /\ user' = u
    /\ pass' = p
    /\ cmd' = IF p # <<>> THEN "AUTH" ELSE "INFO"
    /\ stage' = "send"
    /\ UNCHANGED <<timeout, result, closed, broken, deadline, ServerInfo, typeName,
                   wire, frames, avail, rpos, calls, polls, lastRecv, closeRets, kv>>

\* net.Dial failed: return nil, err.
DialFail ==
    /\ UnchangedIter
    /\ result = "none"
    /\ op = ""
    /\ result' = "error"
    /\ UNCHANGED <<op, cmd, stage, timeout, closed, broken, deadline, user, pass,
                   ServerInfo, typeName, wire, frames, avail, rpos, calls, polls, lastRecv, closeRets, kv>>

\* An operation is called on the Connection that Connect returned.  The
\* arguments and locals of the calls that have returned (Connect's user and
\* pass, a Receive's timeout, GetKeyValue's typeName and results) are gone,
\* and so are the exchanges that are over.
BeginOp(o, c) ==
    /\ UnchangedIter
    /\ result = "conn"
    /\ op = ""
    /\ calls < MaxCalls
    /\ op' = o
    /\ cmd' = c
    /\ stage' = IF o = "Subscribe" THEN "recv" ELSE "send"
    /\ polls' = 0
    /\ wire' = Outstanding.wire
    /\ frames' = Outstanding.frames
    /\ avail' = Outstanding.avail
    /\ rpos' = Outstanding.rpos
    /\ typeName' = <<>>
    /\ timeout' = 0
    /\ user' = <<>>
    /\ pass' = <<>>
    /\ kv' = [NoCall EXCEPT !.base = Len(Outstanding.wire)]
    /\ UNCHANGED <<result, closed, broken, deadline, ServerInfo, calls, lastRecv, closeRets>>

\* A Connection value is built without Connect: its conn is nil.
Bare ==
    /\ UnchangedIter
    /\ result = "none"
    /\ op = ""
    /\ result' = "bare"
    /\ UNCHANGED <<op, cmd, stage, timeout, closed, broken, deadline, user, pass,
                   ServerInfo, typeName, wire, frames, avail, rpos, calls, polls, lastRecv,
                   closeRets, kv>>

\* c.Close(), called by the owner of the Connection between two operations:
\* if c.conn != nil { return c.conn.Close() }; return nil.
Close ==
    /\ UnchangedIter
    /\ result \in {"conn", "bare"}
    /\ op = ""
    /\ Len(closeRets) < MaxCloses
    /\ closed' = (closed \/ result = "conn")
    /\ closeRets' = Append(closeRets, CloseReturn)
    /\ UNCHANGED <<op, cmd, stage, timeout, result, broken, deadline, user, pass,
                   ServerInfo, typeName, wire, frames, avail, rpos, calls, polls, lastRecv, kv>>

(***************************************************************************)
(* Send and Receive.                                                       *)
(***************************************************************************)
\* c.conn.Write(cmd.CommandBytes) wrote the command.
ConnSendOk ==
    /\ UnchangedIter
    /\ stage = "send"
    /\ ~closed /\ ~broken
    /\ wire' = Append(wire, Parse(CommandText(cmd, user, pass)).CommandBytes)
    /\ stage' = "recv"
    /\ UNCHANGED <<op, cmd, timeout, result, closed, broken, deadline, user, pass,
                   ServerInfo, typeName, frames, avail, rpos, calls, polls, lastRecv, closeRets, kv>>

\* c.conn.Write failed: the transport is closed or broken.
ConnSendFail ==
    /\ UnchangedIter
    /\ stage = "send"
    /\ closed \/ broken
    /\ Goto(OnFailure(cmd, FALSE))
    /\ UNCHANGED <<timeout, broken, deadline, user, pass, wire, frames, avail, rpos,
                   calls, polls, lastRecv>>

\* Receive(timeout): the deadline is armed when timeout > 0; ParseValue starts.
ReceiveArm ==
    /\ UnchangedIter
    /\ stage = "recv"
    /\ TimeoutOf(cmd) > 0 => ~closed
    /\ timeout' = TimeoutOf(cmd)
    /\ deadline' = IF TimeoutOf(cmd) > 0 THEN "armed" ELSE deadline
    /\ stage' = "parse"
    /\ calls' = IF result = "conn" THEN calls + 1 ELSE calls
    /\ polls' = IF cmd = "POLL" THEN polls + 1 ELSE polls
    /\ UNCHANGED <<op, cmd, result, closed, broken, user, pass, ServerInfo, typeName,
                   wire, frames, avail, rpos, lastRecv, closeRets, kv>>

\* Receive(timeout > 0) on a closed transport: SetReadDeadline fails, the
\* error is returned before anything is read.
ReceiveArmFail ==
    /\ UnchangedIter
    /\ stage = "recv"
    /\ TimeoutOf(cmd) > 0 /\ closed
    /\ timeout' = TimeoutOf(cmd)
    /\ lastRecv' = "error"
    /\ calls' = IF result = "conn" THEN calls + 1 ELSE calls
    /\ polls' = IF cmd = "POLL" THEN polls + 1 ELSE polls
    /\ Goto(OnFailure(cmd, FALSE))
    /\ UNCHANGED <<broken, deadline, user, pass, wire, frames, avail, rpos>>

\* ParseValue decoded one value from the bytes that have arrived.
ReceiveValue ==
    /\ UnchangedIter
    /\ stage = "parse"
    /\ LET r == ParseValue(Arrived, rpos + 1) IN
          /\ r.st = "ok"
          /\ rpos' = r.next - 1
          /\ Goto(OnValue(cmd, r.val))
    /\ deadline' = DeadlineAfter("value")
    /\ lastRecv' = "value"
    /\ UNCHANGED <<timeout, broken, user, pass, wire, frames, avail, calls, polls>>

\* ParseValue returned a decode error; the bytes it read stay consumed.
ReceiveDecodeError ==
    /\ UnchangedIter
    /\ stage = "parse"
    /\ LET r == ParseValue(Arrived, rpos + 1) IN
          /\ r.st = "error"
          /\ rpos' = r.next - 1
    /\ Goto(OnFailure(cmd, FALSE))
    /\ deadline' = DeadlineAfter("error")
    /\ lastRecv' = "error"
    /\ UNCHANGED <<timeout, broken, user, pass, wire, frames, avail, calls, polls>>

\* The deadline passes while a read of ParseValue waits for bytes: the read
\* fails with a timeout; the bytes read before it stay consumed.
ReceiveTimeout ==
    /\ UnchangedIter
    /\ stage = "parse"
    /\ deadline = "armed"
    /\ ParseValue(Arrived, rpos + 1).st = "short"
    /\ rpos' = avail
    /\ Goto(OnFailure(cmd, TRUE))
    /\ deadline' = DeadlineAfter("timeout")
    /\ lastRecv' = "timeout"
    /\ UNCHANGED <<timeout, broken, user, pass, wire, frames, avail, calls, polls>>

\* The peer has closed the transport and every byte it wrote has been read:
\* the read fails with io.EOF.
ReceiveEOF ==
    /\ UnchangedIter
    /\ stage = "parse"
    /\ broken
    /\ avail = Len(Stream)
    /\ ParseValue(Arrived, rpos + 1).st = "short"
    /\ rpos' = avail
    /\ Goto(OnFailure(cmd, FALSE))
    /\ deadline' = DeadlineAfter("error")
    /\ lastRecv' = "error"
    /\ UNCHANGED <<timeout, broken, user, pass, wire, frames, avail, calls, polls>>

\* ParseValue panicked (make with a length above the limit): the deferred
\* SetReadDeadline runs, nothing recovers, the panic leaves Receive and the
\* operation that called it.
ReceivePanic ==
    /\ UnchangedIter
    /\ stage = "parse"
    /\ ParseValue(Arrived, rpos + 1).st = "panic"
    /\ rpos' = ParseValue(Arrived, rpos + 1).next - 1
    /\ stage' = "panic"
    /\ deadline' = DeadlineAfter("panic")
    /\ lastRecv' = "panic"
    /\ UNCHANGED <<op, cmd, timeout, result, closed, broken, user, pass, ServerInfo,
                   typeName, wire, frames, avail, calls, polls, closeRets, kv>>

\* Subscribe's loop after a timeout or a yield that returned true: the
\* context is not cancelled, the next poll is made.
PollAgain ==
    /\ UnchangedIter
    /\ stage \in {"ctx", "yield"}
    /\ polls < MaxPolls
    /\ stage' = "recv"
    /\ UNCHANGED <<op, cmd, timeout, result, closed, broken, deadline, user, pass,
                   ServerInfo, typeName, wire, frames, avail, rpos, calls, polls, lastRecv, closeRets, kv>>

\* Subscribe returns: the context is cancelled, or yield returned false.
PollEnd ==
    /\ UnchangedIter
    /\ stage \in {"ctx", "yield"}
    /\ Goto(Returned)
    /\ UNCHANGED <<timeout, broken, deadline, user, pass, wire, frames, avail, rpos,
                   calls, polls, lastRecv>>

(***************************************************************************)
(* The server and the network.  What the server has written and what has   *)
(* arrived is seen by the client only in a read of ParseValue, so the      *)
(* server and the network take their steps while Receive is decoding; the  *)
(* peer closes the transport before a Send or while a read is waiting.     *)
(***************************************************************************)
\* The server answers the oldest command it has not answered, with a reply
\* to that command or with one of the other frames.
ServerReplyFrom(others) ==
    /\ UnchangedIter
    /\ stage = "parse"
    /\ ~broken /\ ~closed
    /\ Answered < Len(wire)
    /\ \E bytes \in FramesTo(ToUpper(wire[Answered + 1].bulks[1].bytes)) \cup others :
          frames' = Append(frames, [bytes |-> bytes, cmd |-> Answered + 1])
    /\ UNCHANGED <<op, cmd, stage, timeout, result, closed, broken, deadline, user,
                   pass, ServerInfo, typeName, wire, avail, rpos, calls, polls, lastRecv, closeRets, kv>>

ServerReply == ServerReplyFrom({})

\* The server pushes a message, or one of the other frames, to the
\* subscribed Connection.
ServerPushFrom(others) ==
    /\ UnchangedIter
    /\ stage = "parse"
    /\ ~broken /\ ~closed
    /\ op = "Subscribe"
    /\ Pushed < MaxPushes
    /\ \E bytes \in {Encode(PushedMessage)} \cup others :
          frames' = Append(frames, [bytes |-> bytes, cmd |-> 0])
    /\ UNCHANGED <<op, cmd, stage, timeout, result, closed, broken, deadline, user,
                   pass, ServerInfo, typeName, wire, avail, rpos, calls, polls, lastRecv, closeRets, kv>>

ServerPush == ServerPushFrom({})

\* A server that also writes frames that declare more than make accepts.
HostileReply == ServerReplyFrom({OversizeFrame})

HostilePush == ServerPushFrom({OversizeFrame})

\* Where a segment of the network may end: at the end of what the server
\* has written, or inside a frame: behind its type byte, at its middle,
\* before its last byte.
SegmentEnds ==
    {Len(Stream)}
    \cup UNION {{FrameEnd(i - 1) + 1,
                 FrameEnd(i - 1) + (Len(frames[i].bytes) \div 2),
                 FrameEnd(i) - 1} : i \in 1..Len(frames)}

\* More of what the server wrote reaches the client.
Deliver ==
    /\ UnchangedIter
    /\ stage = "parse"
    /\ avail < Len(Stream)
    /\ \E n \in SegmentEnds : n > avail /\ avail' = n
    /\ UNCHANGED <<op, cmd, stage, timeout, result, closed, broken, deadline, user,
                   pass, ServerInfo, typeName, wire, frames, rpos, calls, polls, lastRecv, closeRets, kv>>

\* The peer closes or resets the transport.
Break ==
    /\ UnchangedIter
    /\ \/ stage = "send"
       \/ stage = "parse" /\ ParseValue(Arrived, rpos + 1).st = "short"
    /\ ~broken /\ ~closed
    /\ broken' = TRUE
    /\ UNCHANGED <<op, cmd, stage, timeout, result, closed, deadline, user, pass,
                   ServerInfo, typeName, wire, frames, avail, rpos, calls, polls, lastRecv, closeRets, kv>>

\* The owner closes the Connection that Connect returned, once.
CloseOnce == ~closed /\ Close

\* A Connection whose owner closes it once, and a server whose frames
\* declare no more than make accepts.
NextConn ==
    \/ \E c \in Credentials : Dial(c[1], c[2])
    \/ DialFail
    \/ \E o \in Operations : \E c \in FirstCommand(o) : BeginOp(o, c)
    \/ CloseOnce
    \/ ConnSendOk
    \/ ConnSendFail
    \/ ReceiveArm
    \/ ReceiveArmFail
    \/ ReceiveValue
    \/ ReceiveDecodeError
    \/ ReceiveTimeout
    \/ ReceiveEOF
    \/ PollAgain
    \/ PollEnd
    \/ ServerReply
    \/ ServerPush
    \/ Deliver
    \/ Break

SpecConn == Init /\ [][NextConn]_vars

\* Any owner and any server: Close is called again and on a Connection
\* built without Connect, and frames may declare any length.
NextHostile ==
    \/ \E c \in Credentials : Dial(c[1], c[2])
    \/ DialFail
    \/ Bare
    \/ \E o \in Operations : \E c \in FirstCommand(o) : BeginOp(o, c)
    \/ Close
    \/ ConnSendOk
    \/ ConnSendFail
    \/ ReceiveArm
    \/ ReceiveArmFail
    \/ ReceiveValue
    \/ ReceiveDecodeError
    \/ ReceiveTimeout
    \/ ReceiveEOF
    \/ ReceivePanic
    \/ PollAgain
    \/ PollEnd
    \/ HostileReply
    \/ HostilePush
    \/ Deliver
    \/ Break

SpecHostile == Init /\ [][NextHostile]_vars

(***************************************************************************)
(* Two iterators from two calls of the same method on one Connection.      *)
(* The body of an iterator as a function of the run's variables: c holds   *)
(* the closure's cursor and start, the range loop's page (pending, ents),  *)
(* the position pc, and the run's history (sent, replies, yielded).        *)
(***************************************************************************)
\* Bounds of the specification SpecPair.
\* Most replies the server gives to the two iterators together.
MaxServed == 3
\* Longest page of a reply.
MaxPairPage == 2

PairFamilies == {"SafeSets", "SafeList", "SafeStream"}

\* c.SafeSets(key), ...: the closure is returned, its body has not run.
Created(f, k) ==
    [f |-> f, k |-> k, pc |-> "created", cursor |-> <<>>, start |-> 0,
     pending |-> <<>>, ents |-> <<>>, terminal |-> FALSE, stopped |-> FALSE,
     sent |-> <<>>, replies |-> <<>>, yielded |-> <<>>]

\* The body starts: cursor := "0" (or "-"), start := 0.
Started(c) == [c EXCEPT !.pc = "send", !.cursor = InitialCursor(c.f), !.start = 0]

Finish(c) == [c EXCEPT !.pc = "done", !.pending = <<>>]

YieldOf(c, v, rest, term) ==
    [c EXCEPT !.pc = "yield", !.pending = rest, !.terminal = term,
              !.yielded = Append(@, v)]

\* The code after the range loop of a page.
AfterPageOf(c) ==
    CASE c.f \in ScanFamilies ->
           IF ScanFinished(c.cursor) THEN Finish(c) ELSE [c EXCEPT !.pc = "send"]
      [] c.f = "SafeList" ->
           [c EXCEPT !.pc = "send", !.start = ListNextStart(c.start)]
      [] c.f = "SafeStream" ->
           IF StreamLastOk(c.ents)
           THEN [c EXCEPT !.pc = "send", !.cursor = StreamNextCursor(c.ents)]
           ELSE YieldOf(c, Unexpected(c.f, "entry format"), <<>>, TRUE)

\* The range loop over the elements left of the page.
RangeOf(c) ==
    IF c.pending # <<>>
    THEN YieldOf(c, Head(c.pending), Tail(c.pending), FALSE)
    ELSE AfterPageOf(c)

\* c.Send(cmd), the command built from the captured variables cap.
SendOf(c, cap) ==
    [c EXCEPT !.pc = "recv", !.sent = Append(@, Request(c.f, c.k, cap.cursor, cap.start))]

\* c.Receive returned response: the body up to its next yield, Send or return.
ReceiveOf(c, response) ==
    LET out == Decode(c.f, response, c.cursor)
        got == [c EXCEPT !.replies = Append(@, response)]
    IN CASE out.kind = "error" -> YieldOf(got, out.elem, <<>>, TRUE)
         [] out.kind = "end" -> Finish(got)
         [] out.kind = "page" ->
              RangeOf([got EXCEPT !.cursor = out.cursor, !.pending = out.elems,
                                  !.ents = out.entries])

\* yield returned true.
ContinueOf(c) == IF c.terminal THEN Finish(c) ELSE RangeOf(c)

\* Mutant of Captured: the cursor and start of the iterator created first
\* are used by both.
CapturedShared(i) == [cursor |-> its[1].cursor, start |-> its[1].start]

\* The variables the body of iterator i reads when it builds its command:
\* cursor and start are declared inside the function the call returns, one
\* of each per run.
Captured(i) == [cursor |-> its[i].cursor, start |-> its[i].start]

\* The replies the server of SpecPair gives: an empty or a full page that
\* goes on, a last page, an error.
PairReplies(f, p) ==
    CASE f \in ScanFamilies ->
           {RedisArray(<<RedisBulkString(FormatNat(p)), RedisArray(Elems(p, n))>>) :
               n \in {0, MaxPairPage}}
           \cup {RedisArray(<<RedisBulkString(<<"0">>), RedisArray(Elems(p, 1))>>),
                 RedisError(Msg("ERR"))}
      [] f = "SafeList" ->
           {RedisArray(Elems(p, n)) : n \in {0, MaxPairPage}} \cup {RedisError(Msg("ERR"))}
      [] f = "SafeStream" ->
           {StreamPage(p, n, 0, RedisNull) : n \in {0, MaxPairPage}}
           \cup {RedisError(Msg("ERR"))}

\* The pull of iterator i goes on while its body has not yielded or returned.
TurnAfter(i, c) == IF c.pc \in {"send", "recv"} THEN i ELSE 0

UnchangedSingle == UNCHANGED <<iterVars, connVars, codecVars, regVars, appVars>>

\* The method is called twice with the same key.
PairCreate(f, k) ==
    /\ UnchangedSingle
    /\ its = <<>>
    /\ its' = <<Created(f, k), Created(f, k)>>
    /\ UNCHANGED <<turn, served>>

\* The consumer of iterator i starts ranging over it.
PairStart(i) ==
    /\ UnchangedSingle
    /\ i \in DOMAIN its
    /\ turn = 0
    /\ its[i].pc = "created"
    /\ its' = [its EXCEPT ![i] = Started(its[i])]
    /\ turn' = i
    /\ UNCHANGED served

PairSend(i) ==
    /\ UnchangedSingle
    /\ i \in DOMAIN its
    /\ turn = i
    /\ its[i].pc = "send"
    /\ its' = [its EXCEPT ![i] = SendOf(its[i], Captured(i))]
    /\ UNCHANGED <<turn, served>>

PairReceive(i) ==
    /\ UnchangedSingle
    /\ i \in DOMAIN its
    /\ turn = i
    /\ its[i].pc = "recv"
    /\ Len(served) < MaxServed
    /\ \E response \in PairReplies(its[i].f, Len(served) + 1) :
          /\ its' = [its EXCEPT ![i] = ReceiveOf(its[i], response)]
          /\ served' = Append(served, [it |-> i, reply |-> response])
          /\ turn' = TurnAfter(i, ReceiveOf(its[i], response))

\* The consumer of iterator i asks for the next element.
PairContinue(i) ==
    /\ UnchangedSingle
    /\ i \in DOMAIN its
    /\ turn = 0
    /\ its[i].pc = "yield"
    /\ its' = [its EXCEPT ![i] = ContinueOf(its[i])]
    /\ turn' = TurnAfter(i, ContinueOf(its[i]))
    /\ UNCHANGED served

\* The consumer of iterator i stops.
PairStop(i) ==
    /\ UnchangedSingle
    /\ i \in DOMAIN its
    /\ turn = 0
    /\ its[i].pc = "yield"
    /\ its' = [its EXCEPT ![i] = [Finish(its[i]) EXCEPT !.stopped = TRUE]]
    /\ UNCHANGED <<turn, served>>

NextPair ==
    \/ \E f \in PairFamilies : PairCreate(f, ListKey)
    \/ \E i \in 1..2 : PairStart(i)
    \/ \E i \in 1..2 : PairSend(i)
    \/ \E i \in 1..2 : PairReceive(i)
    \/ \E i \in 1..2 : PairContinue(i)
    \/ \E i \in 1..2 : PairStop(i)

SpecPair == Init /\ [][NextPair]_vars

(***************************************************************************)
(* SpecCodec: the codec called on its own.  ParseValue reads from a reader *)
(* over a finished byte string, so a read that finds no more bytes fails   *)
(* with io.EOF; SendRaw and command.Parse write a command.  One behaviour   *)
(* makes one call.                                                         *)
(***************************************************************************)
\* Bounds of the specification SpecCodec.
\* Largest length or count a frame of the inputs declares (and -MaxDeclared - 1
\* the smallest).
MaxDeclared == 2
\* Longest argument handed to SendRaw.
MaxArgLen == 2

\* buf.Bytes(): "*%d\r\n", then per token "$%d\r\n", the token, "\r\n".
WireBytes(cb) ==
    IF cb.count = 0 THEN <<>>
    ELSE <<"*">> \o FormatInt(cb.count) \o CRLF
         \o ConcatAll([i \in 1..cb.count |->
                <<"$">> \o FormatInt(cb.bulks[i].len) \o CRLF \o cb.bulks[i].bytes \o CRLF])

\* strings.Join(args, " ").
RECURSIVE JoinSpace(_)
JoinSpace(args) ==
    IF args = <<>> THEN <<>>
    ELSE IF Len(args) = 1 THEN args[1]
    ELSE args[1] \o <<" ">> \o JoinSpace(Tail(args))

\* Mutant of SendRaw: the arguments are routed through command.Parse.
SendRawParsed(args) == WireBytes(Parse(JoinSpace(args)).CommandBytes)

\* SendRaw(args...): the bytes it writes.
SendRaw(args) ==
    <<"*">> \o FormatInt(Len(args)) \o CRLF
    \o ConcatAll([i \in 1..Len(args) |->
           <<"$">> \o FormatInt(Len(args[i])) \o CRLF \o args[i] \o CRLF])

\* ParseValue on a reader that ends with the input: the read that finds no
\* more bytes returns io.EOF (io.ErrUnexpectedEOF inside a payload).
ParseAll(bytes) ==
    LET r == ParseValue(bytes, 1) IN
    IF r.st = "short" THEN [r EXCEPT !.st = "error"] ELSE r

\* The byte strings decoded: a type byte, a line, a line end, and what
\* follows (a payload, elements, nothing).
TypeBytes == {"+", "-", ":", "$", "*", "?"}

HeadLines ==
    {FormatInt(n) : n \in (0 - MaxDeclared - 1)..MaxDeclared}
    \cup {FormatInt(MakeLimit), FormatInt(MakeLimit + 1)}
    \cup {<<>>, <<"a">>, <<"a", "b", "c">>, <<"a", "\n", "b">>, <<"\n", "1">>, <<"1", "a">>}

LineEnds == {CRLF, <<"\n">>}

Followers ==
    {<<>>,
     CRLF,
     <<"a">> \o CRLF,
     <<"a", "b">> \o CRLF,
     <<"\r", "\n">> \o CRLF,
     <<"a", "b">>,
     <<"a", "b", "x", "y">>,
     <<":", "1">> \o CRLF,
     <<":", "1">> \o CRLF \o <<":", "2">> \o CRLF,
     <<":", "1">> \o CRLF \o <<"?", "2">> \o CRLF,
     <<"$", "1">> \o CRLF \o <<"a">> \o CRLF \o <<"+", "b">> \o CRLF,
     <<":", "1">> \o CRLF \o <<"$", "5">> \o CRLF \o <<"a", "b">>,
     <<":", "1">> \o CRLF \o <<"$", "1">> \o CRLF \o <<"a", "b", "c">>,
     <<"*", "1">> \o CRLF \o <<":", "1">> \o CRLF \o <<"*", "1">> \o CRLF
        \o <<":", "2">> \o CRLF,
     <<"*", "1">> \o CRLF \o <<":", "1">> \o CRLF \o <<"*", "1">> \o CRLF
        \o <<":", "x">> \o CRLF,
     <<"*", "1">> \o CRLF \o <<":", "1">> \o CRLF \o <<"*", "-", "2">> \o CRLF,
     <<"$", "-", "1">> \o CRLF \o <<"$", "0">> \o CRLF \o CRLF,
     <<"*", "1">> \o CRLF \o <<"$", "1">> \o CRLF \o <<"a">> \o CRLF,
     <<"*", "1">> \o CRLF \o <<"$", "1">> \o CRLF \o <<"a", "b">> \o CRLF}

WireInputs ==
    {<<t>> \o h \o e \o f : t \in TypeBytes, h \in HeadLines, e \in LineEnds, f \in Followers}

\* The bytes of the arguments of SendRaw: a letter, a space, a quote, CR,
\* LF, 0x00, 0x01, 0x02, 0xff.
ArgBytes == {"a", " ", "\"", "\r", "\n", "00", "01", "02", "ff"}

RECURSIVE StringsOver(_, _)
StringsOver(alphabet, n) ==
    IF n = 0 THEN {<<>>}
    ELSE LET shorter == StringsOver(alphabet, n - 1) IN
         shorter \cup {Append(w, c) : w \in shorter, c \in alphabet}

RawArgs == StringsOver(ArgBytes, MaxArgLen)

SetName == <<"S", "E", "T">>

BinaryArg == <<"00", "01", "02", "ff">>

ArgLists ==
    {<<>>, <<SetName, ListKey, BinaryArg>>}
    \cup {<<a>> : a \in RawArgs}
    \cup {<<SetName, a>> : a \in RawArgs}
    \cup {<<a, SetName>> : a \in RawArgs}
    \cup {<<SetName, a, a>> : a \in RawArgs}

\* Command texts with a codec, a pipe or both: the cases of TestParse, a
\* pipe that holds "#:", a SET without a value, with a fourth token, with
\* an empty and with a second "#:", and a codec in upper case.
CodecTexts ==
    {<<"S", "E", "T", " ", "k", "e", "y", " ", "v", "a", "l", "u", "e", "#", ":", "b", "a", "s", "e", "6", "4">>,
     <<"S", "E", "T", " ", "k", "e", "y", " ", "v", "a", "l", "u", "e", "#", ":", "u", "n", "k", "n", "o", "w", "n">>,
     <<"G", "E", "T", " ", "m", "y", "k", "e", "y", "#", ":", "g", "z", "i", "p", " ", "|", " ", "j", "q", " ", ".">>,
     <<"G", "E", "T", " ", "k", " ", "|", " ", "j", "q", " ", "#", ":", "g", "z", "i", "p">>,
     <<"s", "e", "t", " ", "k", " ", "v", " ", "#", ":", "G", "Z", "I", "P">>,
     <<"S", "E", "T", " ", "k", "#", ":", "n", "o", "p", "e">>,
     <<"S", "E", "T", " ", "k", " ", "v", " ", "x", "#", ":", "s", "n", "a", "p", "p", "y">>,
     <<"G", "E", "T", " ", "k", "#", ":", "n", "o", "p", "e">>,
     <<"S", "E", "T", " ", "k", " ", "v", "#", ":">>,
     <<"S", "E", "T", " ", "k", " ", "a", "#", ":", "b", "#", ":", "b", "a", "s", "e", "6", "4">>}

\* The command texts handed to command.Parse.
CommandTexts ==
    {<<>>, <<" ">>,
     <<"p", "i", "n", "g">>,
     <<"G", "E", "T", " ">> \o ListKey,
     <<"s", "e", "t", " ", " ">> \o ListKey \o <<" ", "\"", "a", " ", "b", "\"">>,
     <<"S", "E", "T", " ">> \o ListKey \o <<" ", "a", "\\", "\"", "b">>,
     <<"G", "E", "T", " ">> \o ListKey \o <<" ", "|", " ", "j", "q">>,
     <<"G", "E", "T", " ">> \o ListKey \o <<" ", "#", ":", "g", "z">>}
    \cup CodecTexts

\* Keys and patterns: a plain one, and ones that hold a space, a double
\* quote, a backslash, "#:" and " | ".
HardKeys ==
    {ListKey,
     <<"a", " ", "b">>,
     <<"\"", "a", "\"">>,
     <<"a", "\\", "b">>,
     <<"a", "#", ":", "b">>,
     <<"a", " ", "|", " ", "b">>}

\* The first paging command of each cursor iterator, and the TYPE and GET
\* commands of GetKeyValue, as texts, for those keys.
KeyTexts ==
    {CommandLine(f, k, InitialCursor(f), 0) : f \in CursorFamilies, k \in HardKeys}
    \cup {KeyCommand(n, k) : n \in {<<"T", "Y", "P", "E">>, <<"G", "E", "T">>}, k \in HardKeys}

UnchangedRest == UNCHANGED <<iterVars, connVars, pairVars, regVars, appVars>>

\* resp.ParseValue(bufio.NewReader(strings.NewReader(input))).
CallParseValue(input) ==
    /\ UnchangedRest
    /\ codecCall = ""
    /\ codecCall' = "ParseValue"
    /\ codecArg' = input
    /\ codecRet' = ParseAll(input)

\* c.SendRaw(args...).
CallSendRaw(args) ==
    /\ UnchangedRest
    /\ codecCall = ""
    /\ codecCall' = "SendRaw"
    /\ codecArg' = args
    /\ codecRet' = SendRaw(args)

\* The bytes SendRaw wrote are decoded with ParseValue.
ReadBack ==
    /\ UnchangedRest
    /\ codecCall = "SendRaw"
    /\ codecCall' = "ReadBack"
    /\ codecRet' = ParseAll(codecRet)
    /\ UNCHANGED codecArg

\* command.Parse(text, nil), then c.Send(cmd).
CallParse(text) ==
    /\ UnchangedRest
    /\ codecCall = ""
    /\ codecCall' = "Parse"
    /\ codecArg' = text
    /\ codecRet' = WireBytes(Parse(text).CommandBytes)

NextCodec ==
    \/ \E input \in WireInputs : CallParseValue(input)
    \/ \E args \in ArgLists : CallSendRaw(args)
    \/ ReadBack
    \/ \E text \in CommandTexts \cup KeyTexts : CallParse(text)

SpecCodec == Init /\ [][NextCodec]_vars

(***************************************************************************)
(* The command registry.  NewRegistry loads the built-in documentation;    *)
(* mergeServerCommands fetches the server's COMMAND list and merges it.    *)
(* A name is a sequence of characters; an ACL category is a record that    *)
(* keeps its leading "@" apart from the rest; Summary and Group are whole  *)
(* strings.  Positions in docs count from 1 here and from 0 in the code.   *)
(***************************************************************************)
MaxMerges == 3     \* MergeServerCommands calls per behaviour
MaxEntries == 2    \* entries in one COMMAND reply

\* The documentation NewRegistry starts from: GET stands for the embedded
\* command list, EXIT and VIEW are two of the application commands.
BuiltInDocs ==
    << [Command |-> <<"G", "E", "T">>, Summary |-> "Get the value of a key",
        Arguments |-> <<"k", "e", "y">>, Group |-> "string"],
       [Command |-> <<"E", "X", "I", "T">>, Summary |-> "Exit the application",
        Arguments |-> <<>>, Group |-> "application"],
       [Command |-> <<"V", "I", "E", "W">>, Summary |-> "View the contents of a key",
        Arguments |-> <<"k", "e", "y">>, Group |-> "application"] >>

\* idx[doc.Command] = i for every i in order: the last position wins.
IndexOf(docs) ==
    [n \in {docs[i].Command : i \in 1..Len(docs)} |->
        CHOOSE i \in 1..Len(docs) :
            /\ docs[i].Command = n
            /\ \A j \in (i + 1)..Len(docs) : docs[j].Command # n]

\* strings.ReplaceAll(s, "|", " ").
ReplaceBars(s) == [i \in 1..Len(s) |-> IF s[i] = "|" THEN " " ELSE s[i]]

\* An ACL category "@name", and one without the "@".
Cat(name) == [at |-> TRUE, name |-> name]

Plain(name) == [at |-> FALSE, name |-> name]

\* One entry of a COMMAND reply: name, arity, ACL categories, subcommands.
\* wellFormed is false for an entry that is no array of two or more elements.
CommandEntry(name, arity, cats, subs) ==
    [wellFormed |-> TRUE, name |-> name, arity |-> arity, cats |-> cats, subs |-> subs]

Malformed ==
    [wellFormed |-> FALSE, name |-> <<>>, arity |-> 0, cats |-> <<>>, subs |-> <<>>]

\* The entries a server may send: a command the registry knows, two it does
\* not, one with subcommands (one of them malformed), an application
\* command's name, and a malformed entry.
CommandEntries ==
    { CommandEntry(<<"g", "e", "t">>, 2, <<Cat("read"), Cat("string"), Cat("fast")>>, <<>>),
      CommandEntry(<<"n", "e", "w">>, -1, <<Cat("admin"), Cat("slow")>>, <<>>),
      CommandEntry(<<"D", "e", "l">>, -2, <<Plain("keyspace"), Cat("write")>>, <<>>),
      CommandEntry(<<"a", "c", "l">>, -2, <<Cat("slow")>>,
          << CommandEntry(<<"a", "c", "l", "|", "c", "a", "t">>, -2,
                          <<Cat("slow"), Cat("connection")>>, <<>>),
             Malformed,
             CommandEntry(<<"a", "c", "l", "|", "g", "e", "t">>, 3, <<Cat("admin")>>,
                 << CommandEntry(<<"a", "c", "l", "|", "g", "e", "t", "|", "x">>, 1,
                                 <<>>, <<>>) >>) >>),
      CommandEntry(<<"e", "x", "i", "t">>, 1, <<>>, <<>>),
      Malformed }

\* The COMMAND replies: every list of at most MaxEntries entries.
CommandReplies == UNION {[1..n -> CommandEntries] : n \in 0..MaxEntries}

\* The entries of a list that parse, each parsed, in order.
RECURSIVE parseCommandEntry(_)
RECURSIVE ParseEntries(_)
ParseEntries(es) ==
    IF es = <<>> THEN <<>>
    ELSE IF ~es[1].wellFormed THEN ParseEntries(Tail(es))
    ELSE <<parseCommandEntry(es[1])>> \o ParseEntries(Tail(es))

\* parseCommandEntry on a well-formed entry: the name in upper case with
\* every "|" replaced by a space, and the subcommands parsed the same way.
parseCommandEntry(e) ==
    [Name        |-> ToUpper(ReplaceBars(e.name)),
     Arity       |-> e.arity,
     ACLCats     |-> e.cats,
     Subcommands |-> ParseEntries(e.subs)]

\* FetchServerCommands on an array reply.
FetchServerCommands(reply) == ParseEntries(reply)

\* "arg1", ..., "argn".
ArgNames(n) == [i \in 1..n |-> <<"a", "r", "g">> \o FormatNat(i)]

ArgRest == <<"[", "a", "r", "g", " ", ".", ".", ".", "]">>

arityHint(arity) ==
    IF arity = 0 \/ arity = 1 THEN <<>>
    ELSE IF arity > 1 THEN JoinSpace(ArgNames(arity - 1))
    ELSE LET minArgs == (0 - arity) - 1
         IN IF minArgs = 0 THEN ArgRest
            ELSE JoinSpace(ArgNames(minArgs)) \o <<" ">> \o ArgRest

SkippedCats == {"read", "write", "fast", "slow", "admin", "dangerous", "keyspace"}

FallbackCats == {"connection", "pubsub", "admin"}

\* The name of the first category among those that qualify, or "".
FirstCat(cats, qualifies(_)) ==
    LET hits == {i \in 1..Len(cats) : qualifies(cats[i])}
    IN IF hits = {} THEN ""
       ELSE cats[CHOOSE i \in hits : \A j \in hits : i <= j].name

primaryACLGroup(cats) ==
    LET Domain(cat) == cat.at /\ cat.name \notin SkippedCats
        Meta(cat) == cat.at /\ cat.name \in FallbackCats
    IN IF FirstCat(cats, Domain) # "" THEN FirstCat(cats, Domain)
       ELSE FirstCat(cats, Meta)

\* The registry as a value.
Registry == [docs |-> regDocs, index |-> regIndex]

\* Mutant of mergeOne: the index is not looked at, every command is appended.
mergeOneAppending(reg, sc) ==
    LET doc == [Command |-> sc.Name, Summary |-> "",
                Arguments |-> arityHint(sc.Arity), Group |-> primaryACLGroup(sc.ACLCats)]
    IN [docs  |-> Append(reg.docs, doc),
        index |-> [n \in DOMAIN reg.index \cup {sc.Name} |->
                     IF n = sc.Name THEN Len(reg.docs) + 1 ELSE reg.index[n]]]

\* Mutant of mergeOne: a known command's record is replaced.
mergeOneReplacing(reg, sc) ==
    LET doc == [Command |-> sc.Name, Summary |-> "",
                Arguments |-> arityHint(sc.Arity), Group |-> primaryACLGroup(sc.ACLCats)]
    IN IF sc.Name \in DOMAIN reg.index
       THEN [reg EXCEPT !.docs[reg.index[sc.Name]] = doc]
       ELSE [docs  |-> Append(reg.docs, doc),
             index |-> [n \in DOMAIN reg.index \cup {sc.Name} |->
                          IF n = sc.Name THEN Len(reg.docs) + 1 ELSE reg.index[n]]]

mergeOne(reg, sc) ==
    IF sc.Name \in DOMAIN reg.index THEN reg
    ELSE LET doc == [Command   |-> sc.Name,
                     Summary   |-> "",
                     Arguments |-> arityHint(sc.Arity),
                     Group     |-> primaryACLGroup(sc.ACLCats)]
         IN [docs  |-> Append(reg.docs, doc),
             index |-> [n \in DOMAIN reg.index \cup {sc.Name} |->
                          IF n = sc.Name THEN Len(reg.docs) + 1 ELSE reg.index[n]]]

\* mergeOne on each command of a list, in order.
RECURSIVE MergeEach(_, _)
MergeEach(reg, scs) ==
    IF scs = <<>> THEN reg ELSE MergeEach(mergeOne(reg, scs[1]), Tail(scs))

\* Each command, then each of its direct subcommands.
RECURSIVE MergeServerCommands(_, _)
MergeServerCommands(reg, cmds) ==
    IF cmds = <<>> THEN reg
    ELSE MergeServerCommands(MergeEach(mergeOne(reg, cmds[1]), cmds[1].Subcommands),
                             Tail(cmds))

\* The names MergeServerCommands hands to mergeOne.
MergedNames(cmds) ==
    UNION { {cmds[i].Name}
              \cup {cmds[i].Subcommands[j].Name : j \in 1..Len(cmds[i].Subcommands)}
            : i \in 1..Len(cmds) }

NoDoc == [Command |-> <<>>, Summary |-> "nil", Arguments |-> <<>>, Group |-> "nil"]

\* Registry.Get: the record of the name in upper case, NoDoc for nil.
Get(command) ==
    LET upper == ToUpper(command)
    IN IF upper \in DOMAIN regIndex THEN regDocs[regIndex[upper]] ELSE NoDoc

\* Registry.GetCommands: the names that start with the prefix in upper case.
GetCommands(prefix) ==
    LET docs == SelectSeq(regDocs, LAMBDA doc : IsPrefix(ToUpper(prefix), doc.Command))
    IN [i \in 1..Len(docs) |-> docs[i].Command]

UnchangedByRegistry == UNCHANGED <<iterVars, connVars, pairVars, codecVars, appVars>>

NewRegistry ==
    /\ regDocs = <<>>
    /\ regDocs' = BuiltInDocs
    /\ regIndex' = IndexOf(BuiltInDocs)
    /\ UNCHANGED <<regMerged, regCalls>>
    /\ UnchangedByRegistry

\* mergeServerCommands of the REPL and the connect handler of the UI: the
\* COMMAND list is fetched and merged when the fetch gave one.
mergeServerCommands(reply) ==
    /\ regDocs # <<>>
    /\ regCalls < MaxMerges
    /\ LET cmds == FetchServerCommands(reply)
           reg == MergeServerCommands(Registry, cmds)
       IN /\ regDocs' = reg.docs
          /\ regIndex' = reg.index
          /\ regMerged' = regMerged \cup MergedNames(cmds)
    /\ regCalls' = regCalls + 1
    /\ UnchangedByRegistry

NextRegistry ==
    \/ NewRegistry
    \/ \E reply \in CommandReplies : mergeServerCommands(reply)

SpecRegistry == Init /\ [][NextRegistry]_vars

(***************************************************************************)
(* SpecPrint: output.PrintRedisValues ranging over a cursor iterator.  The *)
(* iterator's body runs between two iterations of PrintRedisValues' loop.  *)
(***************************************************************************)
\* Largest warningAt argument.
MaxWarningAt == 3

\* The iterators PrintRedisValues is handed.
PrintFamilies == {"SafeKeys", "SafeList"}

\* What r holds: nothing, answers with and without the final newline,
\* spaces around an answer, several answers.
Readers ==
    {<<>>,
     <<"Y", "\n">>,
     <<"N", "\n">>,
     <<"\n", "Y", "\n">>,
     <<"Y">>,
     <<"y", "\n", "Y", "\n">>,
     <<" ", "y", "e", "s", "\r", "\n", "n", "o", "\n">>,
     <<"Y", "\n", "y", "\n", "n", "Y", "\n">>,
     <<"Y", "\n", "y", "e", "s", "\n", "Y", "\n", "y">>}

\* The loop "n, err := r.Read(buf)" over a one-byte buffer: the bytes up to
\* and with the first newline, or all of them when the input ends first.
ReadLine(r) ==
    LET ends == {i \in 1..Len(r) : r[i] = "\n"}
        n == IF ends = {} THEN Len(r) ELSE Min(ends)
    IN  [line |-> SubSeq(r, 1, n), rest |-> SubSeq(r, n + 1, Len(r))]

\* Mutant of Asks: the question comes before the warningAt-th element's
\* successor, from the first element on.
AsksFirst(w, i) == w > 0 /\ i % w = 1 % w

\* warningAt > 0 && i%warningAt == 0.
Asks(w, i) == w > 0 /\ i % w = 0

\* !(len(ans) == 0 || (ans[0] != 'Y' && ans[0] != 'y')).
Affirmative(ans) == ans # <<>> /\ ans[1] \in {"Y", "y"}

\* printIndex and PrintRedisValue write the element.
Printed(value) == [kind |-> "element", value |-> value]

\* fmt.Fprint(w, "Continue Listing? "); colorArray.Fprint(w, "(Y/N) ").
Prompt == [kind |-> "prompt", value |-> NoValue]

UnchangedByPrint == UNCHANGED <<libVars, tuiVars, replVars>>

\* The call PrintRedisValues(w, r, c.SafeKeys(pattern), opts, warningAt):
\* the iterator is created, i := 0.
PrintRedisValues(f, k, w, r) ==
    /\ UnchangedByPrint
    /\ pc = "none"
    /\ family' = f
    /\ key' = k
    /\ pc' = "created"
    /\ warningAt' = w
    /\ reader' = r
    /\ printI' = 0
    /\ UNCHANGED <<printOut, answers>>
    /\ UNCHANGED <<cursor, start, entries, pending, terminal, cancelled, cancelAt, server,
                   list, sent, replies, yielded, stopped, failure, recvCalls, pullSends,
                   pullFrom>>

\* One iteration of "for value := range values": i++, the element is
\* printed, and after the warningAt-th the question is asked and a line read.
PrintValue ==
    LET i == printI + 1
        value == yielded[Len(yielded)]
        read == ReadLine(reader)
        ans == TrimSpace(read.line)
    IN  /\ UnchangedByPrint
        /\ pc = "yield"
        /\ printI' = i
        /\ warningAt' = warningAt
        /\ IF Asks(warningAt, i)
           THEN /\ printOut' = printOut \o <<Printed(value), Prompt>>
                /\ reader' = read.rest
                /\ answers' = Append(answers, ans)
                /\ IF Affirmative(ans) THEN Resume ELSE BreakOut
           ELSE /\ printOut' = Append(printOut, Printed(value))
                /\ UNCHANGED <<reader, answers>>
                /\ Resume

NextPrint ==
    \/ \E f \in PrintFamilies : \E k \in KeysOf(f) : \E w \in 0..MaxWarningAt :
          \E r \in Readers : PrintRedisValues(f, k, w, r)
    \/ Start
    \/ SendOk
    \/ SendFail
    \/ ReceiveFail
    \/ ReceiveReply
    \/ PrintValue

SpecPrint == Init /\ [][NextPrint]_vars

(***************************************************************************)
(* SpecTui: the event loop's handlers and the loadKeys goroutines of the   *)
(* TUI.  A goroutine is at "lock" while it waits in connMu.Lock(), at      *)
(* "held" between two calls on the Connection inside the critical section, *)
(* at "io" inside a Send, SendRaw or Receive (or inside a page of an       *)
(* iterator), at "queue" inside app.QueueUpdateDraw, at "fetch" in         *)
(* handleConnect behind its Unlock.                                        *)
(***************************************************************************)
\* The handlers of the event loop that use the Connection.
UiHandlers ==
    {"selectKey", "handleSafeKeys", "handleView", "handleExport", "sendAndDisplay",
     "sendEditCommand", "deleteKey", "editString", "handleConnect"}

UnchangedByTui == UNCHANGED <<iterVars, libVars, printVars, replVars>>

At(g, fn, at) == gos[g].fn = fn /\ gos[g].pc = at

Move(g, at) == gos' = [gos EXCEPT ![g].pc = at]

\* An event reaches a handler: it runs up to its a.connMu.Lock().
Event(h) ==
    /\ UnchangedByTui
    /\ gos[UI] = Resting
    /\ gos' = [gos EXCEPT ![UI] = [fn |-> h, pc |-> "lock"]]
    /\ UNCHANGED connMu

\* go a.loadKeys(pattern), from the debounce timer of the filter input:
\* the new goroutine runs up to its a.connMu.Lock().
FilterTimer ==
    /\ UnchangedByTui
    /\ \E g \in Loaders :
          /\ gos[g] = Resting
          /\ gos' = [gos EXCEPT ![g] = [fn |-> "loadKeys", pc |-> "lock"]]
    /\ UNCHANGED connMu

\* a.connMu.Lock() returns.  loadKeys then clears the list through
\* QueueUpdateDraw; the handlers go to their first call on the Connection.
Lock(g) ==
    /\ UnchangedByTui
    /\ gos[g].pc = "lock"
    /\ connMu = 0
    /\ connMu' = g
    /\ Move(g, IF gos[g].fn = "loadKeys" THEN "queue" ELSE "held")

\* app.QueueUpdateDraw(f): f runs in the event loop, between two events,
\* and the call returns when f has run.  loadKeys then goes on pulling from
\* SafeKeys.
QueueUpdateDraw(g) ==
    /\ UnchangedByTui
    /\ At(g, "loadKeys", "queue")
    /\ gos[UI] = Resting
    /\ Move(g, "held")
    /\ UNCHANGED connMu

\* A call on the Connection begins: Send, SendRaw, Receive, one page of an
\* iterator; in handleConnect also conn.Connect, a.conn.Close() and
\* *a.conn = *newConn inside the critical section, and
\* a.conn.FetchServerCommands() behind it.
SendReceive(g) ==
    /\ UnchangedByTui
    /\ gos[g].pc \in {"held", "fetch"}
    /\ gos' = [gos EXCEPT ![g].pc = IF gos[g].pc = "fetch" THEN "fetching" ELSE "io"]
    /\ UNCHANGED connMu

\* The call returns and another call on the Connection follows: the
\* Receive behind a Send, the next page.
Returns(g) ==
    /\ UnchangedByTui
    /\ gos[g].pc = "io"
    /\ Move(g, "held")
    /\ UNCHANGED connMu

\* The call returns with a key of SafeKeys: loadKeys adds it to the list
\* through QueueUpdateDraw.
ReturnsKey(g) ==
    /\ UnchangedByTui
    /\ At(g, "loadKeys", "io")
    /\ Move(g, "queue")
    /\ UNCHANGED connMu

\* The last call of the critical section has returned, with an error or
\* without: a.connMu.Unlock().  A handler runs on to its return, with what it
\* does on the way when the call succeeded: handleConnect to its
\* FetchServerCommands, sendEditCommand into selectKey through
\* refreshCurrentKey, deleteKey to its go a.loadKeys.
Unlock(g, err) ==
    /\ UnchangedByTui
    /\ gos[g].pc = "io"
    /\ connMu = g
    /\ connMu' = 0
    /\ gos' =
          CASE err -> [gos EXCEPT ![g] = Resting]
            [] gos[g].fn = "handleConnect" -> [gos EXCEPT ![g].pc = "fetch"]
            [] gos[g].fn = "sendEditCommand" ->
                 [gos EXCEPT ![g] = [fn |-> "selectKey", pc |-> "lock"]]
            [] gos[g].fn = "deleteKey" -> [gos EXCEPT ![g].pc = "spawn"]
            [] OTHER -> [gos EXCEPT ![g] = Resting]

\* a.conn.FetchServerCommands() of handleConnect has returned; the handler
\* goes on to its go a.loadKeys("*").
Fetched ==
    /\ UnchangedByTui
    /\ At(UI, "handleConnect", "fetching")
    /\ Move(UI, "spawn")
    /\ UNCHANGED connMu

\* go a.loadKeys(pattern) at the end of handleConnect and deleteKey; the
\* handler returns.
GoLoadKeys ==
    /\ UnchangedByTui
    /\ gos[UI].pc = "spawn"
    /\ \E g \in Loaders :
          /\ gos[g] = Resting
          /\ gos' = [gos EXCEPT ![g] = [fn |-> "loadKeys", pc |-> "lock"],
                                ![UI] = Resting]
    /\ UNCHANGED connMu

NextTui ==
    \/ \E h \in UiHandlers : Event(h)
    \/ FilterTimer
    \/ \E g \in {UI} \cup Loaders : Lock(g)
    \/ \E g \in Loaders : QueueUpdateDraw(g)
    \/ \E g \in {UI} \cup Loaders : SendReceive(g)
    \/ \E g \in {UI} \cup Loaders : Returns(g)
    \/ \E g \in Loaders : ReturnsKey(g)
    \/ \E g \in {UI} \cup Loaders : \E err \in BOOLEAN : Unlock(g, err)
    \/ Fetched
    \/ GoLoadKeys

SpecTui == Init /\ [][NextTui]_vars

(***************************************************************************)
(* SpecRepl: handleSubscribe, the goroutine it starts, and the commands    *)
(* the REPL runs behind it.  The server's frames are messages of the       *)
(* subscription and replies to the commands; a Receive consumes the frame  *)
(* that arrived first.  Two Receive calls that run at the same time read   *)
(* one bufio.Reader without synchronisation: either gets the frame, or     *)
(* each gets a part of it.                                                 *)
(***************************************************************************)
\* Most messages the server publishes, most commands entered behind SUBSCRIBE.
MaxMessages == 2
MaxCommands == 2

Message == [kind |-> "message", of |-> 0]

Reply(n) == [kind |-> "reply", of |-> n]

Torn(frame) == [kind |-> "torn", of |-> frame.of]

UnchangedByRepl == UNCHANGED <<iterVars, libVars, printVars, tuiVars>>

\* handleSubscribe: c.Send(parsed) succeeded, the context is made, the
\* goroutine is started, and the REPL waits in rl.Readline().
handleSubscribe ==
    /\ UnchangedByRepl
    /\ replPc = "prompt"
    /\ subPc = "none"
    /\ replPc' = "readline"
    /\ subPc' = "ctx"
    /\ UNCHANGED <<ctxDone, inbox, replSent, subGot, replGot>>

\* Subscribe: if err := ctx.Err(); err != nil { return }; else c.Receive
\* is called.
SubCtx ==
    /\ UnchangedByRepl
    /\ subPc = "ctx"
    /\ subPc' = IF ctxDone THEN "done" ELSE "recv"
    /\ UNCHANGED <<replPc, ctxDone, inbox, replSent, subGot, replGot>>

\* c.Receive(200ms) of the goroutine ends by timeout: continue.
SubTimeout ==
    /\ UnchangedByRepl
    /\ subPc = "recv"
    /\ inbox = <<>>
    /\ subPc' = "ctx"
    /\ UNCHANGED <<replPc, ctxDone, inbox, replSent, subGot, replGot>>

\* c.Receive(200ms) of the goroutine returns a frame; it is yielded and
\* printed, and the loop goes on.
SubReceive ==
    /\ UnchangedByRepl
    /\ subPc = "recv"
    /\ inbox # <<>>
    /\ subGot' = Append(subGot, Head(inbox))
    /\ inbox' = Tail(inbox)
    /\ subPc' = "ctx"
    /\ UNCHANGED <<replPc, ctxDone, replSent, replGot>>

\* rl.Readline() returns readline.ErrInterrupt: cancel(), break, return.
Interrupt ==
    /\ UnchangedByRepl
    /\ replPc = "readline"
    /\ ctxDone' = TRUE
    /\ replPc' = "prompt"
    /\ UNCHANGED <<subPc, inbox, replSent, subGot, replGot>>

\* The next command is entered: handleStandardCommand sends it and calls
\* c.Receive.
Command ==
    /\ UnchangedByRepl
    /\ replPc = "prompt"
    /\ subPc # "none"
    /\ replSent < MaxCommands
    /\ replSent' = replSent + 1
    /\ replPc' = "recv"
    /\ UNCHANGED <<subPc, ctxDone, inbox, subGot, replGot>>

\* c.Receive of the REPL returns a frame, which is printed.
ReplReceive ==
    /\ UnchangedByRepl
    /\ replPc = "recv"
    /\ inbox # <<>>
    /\ replGot' = Append(replGot, Head(inbox))
    /\ inbox' = Tail(inbox)
    /\ replPc' = "prompt"
    /\ UNCHANGED <<subPc, ctxDone, replSent, subGot>>

\* c.Receive(5s) of the REPL ends by timeout: "Receive error".
ReplTimeout ==
    /\ UnchangedByRepl
    /\ replPc = "recv"
    /\ inbox = <<>>
    /\ replPc' = "prompt"
    /\ UNCHANGED <<subPc, ctxDone, inbox, replSent, subGot, replGot>>

\* Both goroutines are inside c.Receive and their reads of the shared
\* bufio.Reader interleave: each decodes a part of the frame.
TornReceive ==
    /\ UnchangedByRepl
    /\ replPc = "recv"
    /\ subPc = "recv"
    /\ inbox # <<>>
    /\ subGot' = Append(subGot, Torn(Head(inbox)))
    /\ replGot' = Append(replGot, Torn(Head(inbox)))
    /\ inbox' = Tail(inbox)
    /\ replPc' = "prompt"
    /\ subPc' = "ctx"
    /\ UNCHANGED <<ctxDone, replSent>>

\* The server publishes a message to the subscribed connection.
Publish ==
    /\ UnchangedByRepl
    /\ subPc # "none"
    /\ Cardinality({i \in 1..Len(subGot) : subGot[i].kind = "message"})
         + Cardinality({i \in 1..Len(replGot) : replGot[i].kind = "message"})
         + Cardinality({i \in 1..Len(inbox) : inbox[i].kind = "message"}) < MaxMessages
    /\ inbox' = Append(inbox, Message)
    /\ UNCHANGED <<replPc, subPc, ctxDone, replSent, subGot, replGot>>

\* The server answers the command sent last.
Answer ==
    /\ UnchangedByRepl
    /\ replPc = "recv"
    /\ \A i \in 1..Len(inbox) : inbox[i] # Reply(replSent)
    /\ \A i \in 1..Len(subGot) : subGot[i].of # replSent
    /\ \A i \in 1..Len(replGot) : replGot[i].of # replSent
    /\ inbox' = Append(inbox, Reply(replSent))
    /\ UNCHANGED <<replPc, subPc, ctxDone, replSent, subGot, replGot>>

NextRepl ==
    \/ handleSubscribe
    \/ SubCtx
    \/ SubTimeout
    \/ SubReceive
    \/ Interrupt
    \/ Command
    \/ ReplReceive
    \/ ReplTimeout
    \/ TornReceive
    \/ Publish
    \/ Answer

SpecRepl == Init /\ [][NextRepl]_vars

(***************************************************************************)
(* C1.  On a failed Send, a failed Receive, an error-typed reply or a      *)
(* reply without the family's shape, a cursor iterator yields the elements *)
(* of the earlier pages, then exactly one RedisError element, and ends     *)
(* without a further request.  Stated as the claim has it; SafeStream      *)
(* breaks it: it yields the entries of the malformed page before the error *)
(* element, and reports nothing when a malformed entry is not the last.    *)
(***************************************************************************)
C1_ErrorEndsSequence ==
    LET bad == replies # <<>> /\ ~HasShape(family, Last(replies))
    IN (family \in CursorFamilies /\ (failure # "" \/ bad)) =>
          /\ pc \in {"yield", "done"}
          /\ pc = "yield" => terminal
          /\ Len(yielded) >= 1
          /\ Last(yielded).type = "error"
          /\ SubSeq(yielded, 1, Len(yielded) - 1)
                = ElemsOfFirst(IF bad THEN Len(replies) - 1 ELSE Len(replies))
          /\ Len(sent) = Len(replies) + (IF failure = "receive" THEN 1 ELSE 0)

(***************************************************************************)
(* C2.  Against a list of N unchanging elements SafeList requests the      *)
(* windows [0,99], [100,199], ... in this order, and yields the list's     *)
(* elements in list order, each once: all N of them when drained.          *)
(***************************************************************************)
C2_ListWindows ==
    family = "SafeList" =>
       /\ \A i \in 1..Len(sent) :
             TokensOf(sent[i]) = << <<"L", "R", "A", "N", "G", "E">>, ListKey,
                                    FormatNat(100 * (i - 1)),
                                    FormatNat(100 * (i - 1) + 99) >>
       /\ IsPrefix(yielded, list)
       /\ Drained => yielded = list

C2_Witness == Drained /\ Len(list) > 200 /\ yielded = list /\ Len(sent) >= 3

(***************************************************************************)
(* C3.  As claimed: a drain of a 250-element list issues exactly 3 paging  *)
(* requests, with start offsets 0, 100, 200.                               *)
(***************************************************************************)
C3_ThreeRequests ==
    (family = "SafeList" /\ Len(list) = 250 /\ Drained) =>
       /\ Len(sent) = 3
       /\ \A i \in 1..Len(sent) : TokensOf(sent[i])[3] = FormatNat(100 * (i - 1))
       /\ yielded = list

(***************************************************************************)
(* C3, amended.  A drain of a 250-element list issues exactly 4 paging     *)
(* requests, with start offsets 0, 100, 200, 300 (the fourth is answered   *)
(* by the empty array that ends the scan), and yields the 250 elements in  *)
(* list order.                                                             *)
(***************************************************************************)
C3_FourRequests ==
    (family = "SafeList" /\ Len(list) = 250 /\ Drained) =>
       /\ Len(sent) = 4
       /\ \A i \in 1..Len(sent) : TokensOf(sent[i])[3] = FormatNat(100 * (i - 1))
       /\ Len(replies) = 4
       /\ Last(replies) = RedisArray(<<>>)
       /\ Len(yielded) = 250
       /\ yielded = list

C3_Witness == family = "SafeList" /\ Len(list) = 250 /\ Drained /\ Len(yielded) = 250

(***************************************************************************)
(* C4.  SafeStream: the first XRANGE carries the cursor "-"; after every   *)
(* non-empty page the next XRANGE carries "(" followed by the id of the    *)
(* page's last entry; the scan ends at the first empty page.               *)
(***************************************************************************)
C4_StreamCursor ==
    family = "SafeStream" =>
       /\ \A i \in 1..Len(sent) :
             /\ i > 1 => (replies[i - 1].type = "array" /\ replies[i - 1].values # <<>>)
             /\ TokensOf(sent[i]) =
                   << <<"X", "R", "A", "N", "G", "E">>, key,
                      IF i = 1 THEN <<"-">>
                      ELSE <<"(">> \o TextOf(Last(replies[i - 1].values).values[1]),
                      <<"+">>, <<"C", "O", "U", "N", "T">>, <<"1", "0", "0">> >>
       /\ \A i \in 1..Len(replies) :
             replies[i] = RedisArray(<<>>) =>
                /\ i = Len(replies)
                /\ Len(sent) = i
                /\ pc = "done"
                /\ yielded = ElemsOfFirst(i)

C4_Witness ==
    /\ family = "SafeStream"
    /\ Len(sent) = 3
    /\ Len(replies[1].values) >= 2
    /\ Len(replies[2].values) >= 2

C6_ZsetUnpaired ==
    family = "SafeSortedSets" =>
       LET inner == ConcatAll([i \in 1..Len(replies) |->
                       IF IsTuplePage(replies[i]) THEN replies[i].values[2].values ELSE <<>>])
       IN /\ IsPrefix(DataYielded, inner)
          /\ (pc \in {"send", "recv"} \/ Drained) => Len(DataYielded) = Len(inner)
          /\ \A j \in 1..Len(DataYielded) :
               /\ DataYielded[j].type # "array"
               /\ \A i \in 1..Len(replies) :
                     IsTuplePage(replies[i]) => DataYielded[j] # replies[i].values[1]

C6_Witness ==
    /\ family = "SafeSortedSets"
    /\ Len(replies) = 2
    /\ IsTuplePage(replies[1]) /\ Len(replies[1].values[2].values) = 2
    /\ IsTuplePage(replies[2]) /\ Len(replies[2].values[2].values) = 2
    /\ Len(yielded) = 4
    /\ Drained

(***************************************************************************)
(* C7.  The four scans: the first request carries the cursor "0", every    *)
(* later request the text of element 0 of the reply before it; the         *)
(* sequence is the pages' elements, page after page; a reply whose cursor  *)
(* is "0" is the last one: its elements are yielded and no request         *)
(* follows.                                                                *)
(***************************************************************************)
ScanTokens(f, k, cur) ==
    IF f = "SafeKeys"
    THEN << <<"S", "C", "A", "N">>, cur, <<"M", "A", "T", "C", "H">>, k,
            <<"C", "O", "U", "N", "T">>, <<"1", "0", "0">> >>
    ELSE << (CASE f = "SafeSets" -> <<"S", "S", "C", "A", "N">>
               [] f = "SafeHash" -> <<"H", "S", "C", "A", "N">>
               [] f = "SafeSortedSets" -> <<"Z", "S", "C", "A", "N">>),
            k, cur, <<"C", "O", "U", "N", "T">>, <<"1", "0", "0">> >>

C7_ScanCursor ==
    family \in ScanFamilies =>
       /\ \A i \in 1..Len(sent) :
             TokensOf(sent[i]) =
                ScanTokens(family, key,
                           IF i = 1 THEN <<"0">> ELSE TextOf(replies[i - 1].values[1]))
       /\ IsPrefix(DataYielded, ElemsOfFirst(Len(replies)))
       /\ \A i \in 1..Len(replies) :
             (IsTuplePage(replies[i]) /\ TextOf(replies[i].values[1]) = <<"0">>) =>
                /\ i = Len(replies)
                /\ Len(sent) = i
                /\ pc \in {"yield", "done"}
                /\ Drained => yielded = ElemsOfFirst(i)
       /\ pc \in {"send", "recv"} => DataYielded = ElemsOfFirst(Len(replies))

C7_Witness ==
    /\ family \in ScanFamilies
    /\ Len(sent) = 3
    /\ Len(replies) = 3
    /\ \A i \in 1..3 : IsTuplePage(replies[i])
    /\ replies[2].values[1].type = "integer"
    /\ TextOf(replies[3].values[1]) = <<"0">>
    /\ Drained
    /\ Len(yielded) >= 3

(***************************************************************************)
(* C8.  As claimed: between two requests of the consumer for the next      *)
(* element a cursor iterator makes at most one Send.                       *)
(***************************************************************************)
C8_OneRoundTripPerPull == family \in CursorFamilies => pullSends <= 1

(***************************************************************************)
(* C8, amended.  Between two requests of the consumer for the next element *)
(* a cursor iterator makes at most one Send, plus one for every reply      *)
(* received in between that was a well-formed scan page yielding no        *)
(* element with a cursor other than "0": such a page is followed by the    *)
(* next request in the same pull.                                          *)
(***************************************************************************)
\* A scan page that yields nothing and does not end the scan.
BlankPage(f, r) ==
    /\ f \in ScanFamilies
    /\ IsTuplePage(r)
    /\ PageElems(f, r) = <<>>
    /\ TextOf(r.values[1]) # <<"0">>

BlankSincePull == {i \in (pullFrom + 1)..Len(replies) : BlankPage(family, replies[i])}

C8_OneRoundTripPerPage ==
    family \in CursorFamilies => pullSends <= 1 + Cardinality(BlankSincePull)

C8_Witness ==
    /\ family \in CursorFamilies
    /\ pullSends = 3
    /\ Cardinality(BlankSincePull) = 2
    /\ pc = "recv"

(***************************************************************************)
(* C9.  Creating an iterator sends nothing and reads nothing: until the    *)
(* consumer starts pulling, no Send and no Receive has been made.          *)
(***************************************************************************)
C9_NoWorkBeforeFirstPull ==
    pc \in {"none", "created"} =>
       /\ sent = <<>>
       /\ recvCalls = 0
       /\ replies = <<>>
       /\ yielded = <<>>
       /\ failure = ""

C9_Witness == pc = "created" /\ family \in Families

(***************************************************************************)
(* C10.  Elements are yielded in the server's order within a page and the  *)
(* pages in request order: what has been yielded is always the beginning   *)
(* of the received pages' elements, and while a request is being built or  *)
(* is outstanding every element of every received page has been yielded.   *)
(***************************************************************************)
C10_PageOrder ==
    family \in CursorFamilies =>
       /\ IsPrefix(DataYielded, ElemsOfFirst(Len(replies)))
       /\ Len(replies) >= 1 =>
             IsPrefix(ElemsOfFirst(Len(replies) - 1), DataYielded)
       /\ (pc \in {"send", "recv"} \/ Len(sent) > Len(replies)) =>
             DataYielded = ElemsOfFirst(Len(replies))

C10_Witness ==
    /\ family = "SafeSets"
    /\ pc = "recv"
    /\ Len(sent) = 3
    /\ Len(yielded) = 2 * MaxPageLen

(***************************************************************************)
(* C11.  As claimed: once the consumer of a cursor iterator has stopped,   *)
(* the iterator is at its end and every command it sent has had its reply  *)
(* returned by Receive.  A stop after the error element of a failed        *)
(* Receive breaks it: the command sent last has no reply read.             *)
(***************************************************************************)
C11_StopLeavesNoRequest ==
    (family \in CursorFamilies /\ stopped) =>
       /\ pc = "done"
       /\ Len(sent) = Len(replies)

(***************************************************************************)
(* C12.  Each of two iterators from two calls of the same method on the    *)
(* same Connection and key, pulled in any interleaving, sends the requests *)
(* and yields the elements that one iterator running alone sends and       *)
(* yields against the replies this iterator received.                      *)
(***************************************************************************)
\* One iterator alone, drained, against the replies rs: the run up to its
\* end or to the request that rs does not answer.
RECURSIVE SoloRun(_, _)
SoloRun(c, rs) ==
    CASE c.pc = "send" ->
           SoloRun(SendOf(c, [cursor |-> c.cursor, start |-> c.start]), rs)
      [] c.pc = "recv" ->
           IF rs = <<>> THEN c ELSE SoloRun(ReceiveOf(c, Head(rs)), Tail(rs))
      [] c.pc = "yield" -> SoloRun(ContinueOf(c), rs)
      [] c.pc = "done" -> c

Solo(f, k, rs) == SoloRun(Started(Created(f, k)), rs)

C12_Independent ==
    \A i \in DOMAIN its :
       LET c == its[i]
           solo == Solo(c.f, c.k, c.replies)
       IN /\ IsPrefix(c.sent, solo.sent)
          /\ IsPrefix(c.yielded, solo.yielded)
          /\ Len(c.sent) >= Len(c.replies)
          /\ (c.pc = "recv" \/ (c.pc = "done" /\ ~c.stopped)) =>
                (c.sent = solo.sent /\ c.yielded = solo.yielded)

C12_Witness ==
    /\ Len(served) = 3
    /\ served[1].it = 1 /\ served[2].it = 2 /\ served[3].it = 1
    /\ Len(its[1].sent) = 2 /\ Len(its[2].sent) = 1
    /\ Len(its[1].yielded) >= 2 /\ Len(its[2].yielded) >= 1
    /\ its[1].pc = "done" /\ ~its[1].stopped

(***************************************************************************)
(* C13.  Subscribe: once the context is cancelled and no poll is under     *)
(* way, no Receive is started any more, nothing more is yielded, and       *)
(* nothing has been sent: from the check of the context the loop returns.  *)
(***************************************************************************)
C13_CancelBeforePoll ==
    [][family = "Subscribe" =>
          /\ (pc' = "poll" /\ pc # "poll") => (pc = "ctx" /\ ~cancelled)
          /\ (cancelled /\ pc # "poll") =>
                /\ pc' # "poll"
                /\ recvCalls' = recvCalls
                /\ yielded' = yielded
                /\ sent' = <<>>
                /\ pc = "ctx" => pc' = "done"]_vars

C13_Witness ==
    /\ family = "Subscribe"
    /\ cancelled
    /\ pc = "done"
    /\ recvCalls >= 1
    /\ ~stopped
    /\ failure = ""
    /\ Len(yielded) = Len(replies)

(***************************************************************************)
(* C14.  Subscribe: a Receive that times out yields nothing and leads to   *)
(* the next check of the context; a Receive that fails otherwise yields    *)
(* one RedisError element, the last of the sequence, and no Receive        *)
(* follows it.                                                             *)
(***************************************************************************)
C14_PollErrors ==
    /\ [](family = "Subscribe" =>
            /\ failure = "" => Len(yielded) = Len(replies)
            /\ failure = "receive" =>
                  /\ pc \in {"yield", "done"}
                  /\ pc = "yield" => terminal
                  /\ Len(yielded) = Len(replies) + 1
                  /\ Last(yielded).type = "error"
                  /\ SubSeq(yielded, 1, Len(replies)) = replies)
    /\ [][family = "Subscribe" =>
            /\ failure = "receive" => recvCalls' = recvCalls
            /\ (pc = "poll" /\ recvCalls' # recvCalls /\ replies' = replies
                  /\ failure' = "") => (pc' = "ctx" /\ yielded' = yielded)]_vars

C14_Witness ==
    /\ family = "Subscribe"
    /\ failure = "receive"
    /\ recvCalls = 3
    /\ Len(replies) = 1
    /\ Len(yielded) = 2
    /\ pc = "done"

(***************************************************************************)
(* C15.  Subscribe: when yield returns false the loop returns: no Receive  *)
(* is started after it and nothing has been sent on the Connection.        *)
(***************************************************************************)
C15_StopAfterYield ==
    [][(family = "Subscribe" /\ stopped') =>
          /\ pc' = "done"
          /\ recvCalls' = recvCalls
          /\ yielded' = yielded
          /\ sent' = <<>>]_vars

C15_Witness ==
    /\ family = "Subscribe"
    /\ stopped
    /\ pc = "done"
    /\ Len(yielded) = 2
    /\ failure = ""

(***************************************************************************)
(* What the claims about the Connection are stated in.                     *)
(***************************************************************************)
\* The offsets of the server's stream at which a reply frame starts.
FrameStarts == {0} \cup {FrameEnd(i) : i \in 1..Len(frames)}

\* Command number i of the Connection has been written and the reader has
\* not consumed its reply to the end.
Unread(i) == ~\E j \in 1..Len(frames) : frames[j].cmd = i /\ rpos >= FrameEnd(j)

\* A Receive is decoding.
Receiving == stage = "parse"

(***************************************************************************)
(* C16.  Outside a Receive no read deadline is armed on the transport:     *)
(* the deadline a Receive(timeout > 0) arms is cleared when it returns,    *)
(* with a value or with an error; a Receive(0) runs with no deadline.      *)
(***************************************************************************)
C16_NoStaleDeadline ==
    /\ ~Receiving => deadline = "none"
    /\ (Receiving /\ timeout = 0) => deadline = "none"

C16_Witness == Receiving /\ timeout = 0 /\ lastRecv = "timeout"

(***************************************************************************)
(* C17.  As claimed: between two calls on an open Connection the reader    *)
(* stands at the first byte of a reply frame.  A Receive whose deadline    *)
(* passes after a part of a frame was read breaks it: the part stays       *)
(* consumed, and the Connection stays in use.                              *)
(***************************************************************************)
C17_FrameBoundary ==
    (result = "conn" /\ ~closed /\ ~broken /\ ~Receiving) => rpos \in FrameStarts

(***************************************************************************)
(* C18.  As claimed: at most one command written to the Connection has a   *)
(* reply the reader has not consumed.  The operation that follows a        *)
(* Receive that timed out breaks it: it writes its command while the reply *)
(* to the earlier one is unread.                                           *)
(***************************************************************************)
C18_OneOutstanding == Cardinality({i \in 1..Len(wire) : Unread(i)}) <= 1

(***************************************************************************)
(* C19.  With a password, once Connect has returned: unless the AUTH       *)
(* command was written and the reply read for it was the simple string OK, *)
(* Connect returned an error and the transport is closed.                  *)
(***************************************************************************)
AuthSucceeded ==
    /\ Len(wire) >= 1
    /\ Len(frames) >= 1
    /\ frames[1].bytes = <<"+", "O", "K", "\r", "\n">>
    /\ rpos >= FrameEnd(1)

C19_AuthFailureCloses ==
    (pass # <<>> /\ result # "none" /\ ~AuthSucceeded) => (result = "error" /\ closed)

C19_Witness ==
    /\ pass # <<>>
    /\ result = "error"
    /\ closed
    /\ Len(frames) = 1
    /\ frames[1].bytes = <<"+", "N", "O", "\r", "\n">>
    /\ lastRecv = "value"

(***************************************************************************)
(* C20.  When Connect returns from its INFO step, it returns an open       *)
(* Connection; unless the Receive for INFO returned a bulk string, the     *)
(* Connection's ServerInfo holds the key "error" and no other.             *)
(***************************************************************************)
InfoReceived ==
    /\ Receiving
    /\ ParseValue(Arrived, rpos + 1).st = "ok"
    /\ ParseValue(Arrived, rpos + 1).val.type = "bulk"

C20_InfoFailureNotFatal ==
    [][(op = "Connect" /\ cmd = "INFO" /\ op' = "") =>
          /\ result' = "conn"
          /\ ~closed'
          /\ ~InfoReceived => DOMAIN ServerInfo' = {ErrorKey}]_vars

C20_Witness ==
    /\ result = "conn"
    /\ op = ""
    /\ calls = 0
    /\ ~closed
    /\ lastRecv = "timeout"
    /\ DOMAIN ServerInfo = {ErrorKey}

(***************************************************************************)
(* C21.  Close is idempotent: every call of Close after the first returns  *)
(* what the first returned, on a Connection that Connect returned as on    *)
(* one whose transport was never set, and leaves the Connection in the     *)
(* state the first call left it in.                                        *)
(***************************************************************************)
C21_CloseIdempotent ==
    /\ \A i \in 1..Len(closeRets) : closeRets[i] = closeRets[1]
    /\ (result = "conn" /\ closeRets # <<>>) => closed
    /\ result = "bare" => ~closed

(***************************************************************************)
(* What the claims about the codec are stated in.                          *)
(***************************************************************************)
StartsWith(s, prefix) == IsPrefix(prefix, s)

\* ParseValue was called on an input that starts with the frame.
Decoding(frame) == codecCall = "ParseValue" /\ StartsWith(codecArg, frame)

(***************************************************************************)
(* C22.  ParseValue decodes "$-1\r\n" and "*-1\r\n" to RedisNull,          *)
(* "$0\r\n\r\n" to a bulk string of length 0 that is not null, and         *)
(* "*0\r\n" to an array of zero elements that is not null.                 *)
(***************************************************************************)
C22_NullAndEmpty ==
    /\ Decoding(<<"$", "-", "1">> \o CRLF) =>
          (codecRet.st = "ok" /\ codecRet.val = RedisNull)
    /\ Decoding(<<"*", "-", "1">> \o CRLF) =>
          (codecRet.st = "ok" /\ codecRet.val = RedisNull)
    /\ Decoding(<<"$", "0">> \o CRLF \o CRLF) =>
          /\ codecRet.st = "ok"
          /\ codecRet.val.type = "bulk"
          /\ codecRet.val.str = <<>>
          /\ codecRet.val.int = 0
    /\ Decoding(<<"*", "0">> \o CRLF) =>
          /\ codecRet.st = "ok"
          /\ codecRet.val.type = "array"
          /\ codecRet.val.values = <<>>

C22_Witness ==
    /\ codecCall = "ParseValue"
    /\ codecArg = <<"*", "0">> \o CRLF \o <<":", "1">> \o CRLF
    /\ codecRet.st = "ok"
    /\ codecRet.val = RedisArray(<<>>)
    /\ codecRet.next = 5

(***************************************************************************)
(* C23.  For every declared bulk length or array count below -1,           *)
(* ParseValue returns an error and no value; likewise for an unknown type  *)
(* byte and for an integer, bulk length or array count line that is not a  *)
(* number.                                                                 *)
(***************************************************************************)
DecodeFailed == codecRet.st = "error" /\ codecRet.val = NoValue

NotNumbers == {<<>>, <<"a">>, <<"a", "b", "c">>, <<"1", "a">>}

C23_BadFramesFail ==
    /\ \A n \in (0 - MaxDeclared - 1)..(0 - 2) : \A t \in {"$", "*"} :
          Decoding(<<t>> \o FormatInt(n) \o CRLF) => DecodeFailed
    /\ \A line \in NotNumbers : \A t \in {":", "$", "*"} :
          Decoding(<<t>> \o line \o CRLF) => DecodeFailed
    /\ Decoding(<<"?">>) => DecodeFailed

C23_Witness ==
    /\ codecCall = "ParseValue"
    /\ codecArg = <<"$", "-", "2">> \o CRLF \o <<"a", "b">> \o CRLF
    /\ DecodeFailed

(***************************************************************************)
(* C24.  A line read of the decoder (simple string, error, integer)        *)
(* consumes the bytes up to and including the first CRLF and returns the   *)
(* text before that CRLF: a bare LF does not end the line.                 *)
(***************************************************************************)
\* The bytes behind the type byte, and where their first CRLF begins.
AfterType == Tail(codecArg)

FirstCRLF == Index(AfterType, CRLF)

LineToCRLF == SubSeq(AfterType, 1, FirstCRLF - 1)

C24_LineEndsAtCRLF ==
    (codecCall = "ParseValue" /\ FirstCRLF # 0) =>
       /\ codecArg[1] \in {"+", "-"} =>
             /\ codecRet.st = "ok"
             /\ codecRet.val.str = LineToCRLF
             /\ codecRet.next = FirstCRLF + 3
       /\ (codecArg[1] = ":" /\ IsInt(LineToCRLF)) =>
             /\ codecRet.st = "ok"
             /\ codecRet.val.int = Atoi(LineToCRLF)
             /\ codecRet.next = FirstCRLF + 3

(***************************************************************************)
(* C25.  The bytes written for a command are an array header with the      *)
(* number of tokens, then one bulk string per token in order, the name     *)
(* first, each with its exact length and a CRLF behind it; SendRaw writes  *)
(* this for its arguments as they are.                                     *)
(***************************************************************************)
BulkArray(tokens) == RedisArray([i \in 1..Len(tokens) |-> RedisBulkString(tokens[i])])

C25_CommandEncoding ==
    /\ codecCall = "SendRaw" => codecRet = Encode(BulkArray(codecArg))
    /\ (codecCall = "Parse" /\ Parse(codecArg).Name # <<>> /\ ~Parse(codecArg).Serialize) =>
          LET p == Parse(codecArg)
              d == ParseAll(codecRet)
          IN /\ d.st = "ok"
             /\ d.next = Len(codecRet) + 1
             /\ d.val.type = "array"
             /\ Len(d.val.values) = 1 + Len(p.Args)
             /\ ToUpper(d.val.values[1].str) = p.Name
             /\ \A i \in 1..Len(p.Args) : d.val.values[i + 1] = RedisBulkString(p.Args[i])
             /\ codecRet = Encode(BulkArray([i \in 1..Len(d.val.values) |->
                                                d.val.values[i].str]))

C25_Witness ==
    /\ codecCall = "SendRaw"
    /\ codecArg = <<SetName, <<"\"", "\n">>, <<"\"", "\n">> >>
    /\ codecRet = <<"*", "3">> \o CRLF \o <<"$", "3">> \o CRLF \o SetName \o CRLF
                   \o <<"$", "2">> \o CRLF \o <<"\"", "\n">> \o CRLF
                   \o <<"$", "2">> \o CRLF \o <<"\"", "\n">> \o CRLF

(***************************************************************************)
(* C26.  Round trip: ParseValue decodes the bytes SendRaw wrote to an      *)
(* array of bulk strings whose payloads are the arguments, byte for byte   *)
(* and in order, each Length the length of its argument, whatever bytes    *)
(* the arguments hold.                                                     *)
(***************************************************************************)
C26_RoundTrip ==
    codecCall = "ReadBack" =>
       /\ codecRet.st = "ok"
       /\ codecRet.val.type = "array"
       /\ Len(codecRet.val.values) = Len(codecArg)
       /\ \A i \in 1..Len(codecArg) :
             /\ codecRet.val.values[i].type = "bulk"
             /\ codecRet.val.values[i].str = codecArg[i]
             /\ codecRet.val.values[i].int = Len(codecArg[i])
       /\ codecRet.next = Len(SendRaw(codecArg)) + 1

C26_Witness ==
    /\ codecCall = "ReadBack"
    /\ codecArg = <<SetName, ListKey, BinaryArg>>
    /\ codecRet.st = "ok"
    /\ codecRet.val.values[3].str = <<"00", "01", "02", "ff">>
    /\ codecRet.val.values[3].int = 4

(***************************************************************************)
(* C27.  A decode error is fatal to the decode in progress: when an        *)
(* element of an array fails, at any depth, ParseValue returns an error    *)
(* and no value, never the elements decoded so far; an array that is       *)
(* returned holds the declared number of elements in wire order.           *)
(***************************************************************************)
One == <<":", "1">> \o CRLF

\* What follows an array header: a first element that decodes and a second
\* that fails (type byte, integer text, truncated payload, missing CRLF,
\* integer text and count one level down).
FailingSecond ==
    {One \o <<"?", "2">> \o CRLF,
     One \o <<"$", "5">> \o CRLF \o <<"a", "b">>,
     One \o <<"$", "1">> \o CRLF \o <<"a", "b", "c">>,
     <<"*", "1">> \o CRLF \o One \o <<"*", "1">> \o CRLF \o <<":", "x">> \o CRLF,
     <<"*", "1">> \o CRLF \o One \o <<"*", "-", "2">> \o CRLF}

C27_ErrorIsFatal ==
    /\ \A n \in 2..MaxDeclared : \A f \in FailingSecond :
          Decoding(<<"*">> \o FormatInt(n) \o CRLF \o f) => DecodeFailed
    /\ (codecCall = "ParseValue" /\ codecRet.st = "error") => codecRet.val = NoValue
    /\ (codecCall = "ParseValue" /\ codecRet.st = "ok" /\ codecRet.val.type = "array") =>
          /\ codecArg[1] = "*"
          /\ FirstCRLF # 0
          /\ Len(codecRet.val.values) = Atoi(LineToCRLF)
    /\ Decoding(<<"*", "2">> \o CRLF \o One \o <<":", "2">> \o CRLF) =>
          codecRet.val = RedisArray(<<RedisInteger(1), RedisInteger(2)>>)
    /\ Decoding(<<"*", "2">> \o CRLF \o <<"*", "1">> \o CRLF \o One
                   \o <<"*", "1">> \o CRLF \o <<":", "2">> \o CRLF) =>
          codecRet.val = RedisArray(<<RedisArray(<<RedisInteger(1)>>),
                                      RedisArray(<<RedisInteger(2)>>)>>)

C27_Witness ==
    /\ codecCall = "ParseValue"
    /\ codecArg = <<"*", "2">> \o CRLF \o <<"*", "1">> \o CRLF \o One
                   \o <<"*", "1">> \o CRLF \o <<":", "x">> \o CRLF
    /\ DecodeFailed

(***************************************************************************)
(* C28.  No cursor iterator and not Subscribe panics: whatever frames the  *)
(* server writes, frames that declare a very large length included, the    *)
(* Receive of the iterator returns a value or an error.                    *)
(***************************************************************************)
C28_IteratorsNeverPanic == op \in {"SafeSets", "Subscribe"} => stage # "panic"

(***************************************************************************)
(* C29.  GetKeyValue dispatches on the TYPE reply: "string" is followed by *)
(* GET, whose reply is the single value; list, set, zset, hash and stream  *)
(* give the matching iterator after the TYPE round trip alone; "none", any *)
(* other name, an error reply and a reply that is no simple string give an *)
(* error with no single value and no collection.  Without an error exactly *)
(* one of the single value and the collection is set.                      *)
(***************************************************************************)
TypeSaid(name) == kv.typeReply.type = "string" /\ kv.typeReply.str = name

\* The commands GetKeyValue has written.
KeySends == Len(wire) - kv.base

GivesIterator(name, method) ==
    TypeSaid(name) =>
       /\ ~kv.err
       /\ kv.single = NoValue
       /\ kv.collection = method
       /\ typeName = name
       /\ KeySends = 1

C29_Dispatch ==
    kv.returned =>
       /\ (TypeSaid(<<"s", "t", "r", "i", "n", "g">>) /\ ~kv.err) =>
             /\ kv.single # NoValue
             /\ kv.collection = ""
             /\ typeName = <<"s", "t", "r", "i", "n", "g">>
             /\ KeySends = 2
             /\ ToUpper(wire[kv.base + 2].bulks[1].bytes) = <<"G", "E", "T">>
       /\ GivesIterator(<<"l", "i", "s", "t">>, "SafeList")
       /\ GivesIterator(<<"s", "e", "t">>, "SafeSets")
       /\ GivesIterator(<<"z", "s", "e", "t">>, "SafeSortedSets")
       /\ GivesIterator(<<"h", "a", "s", "h">>, "SafeHash")
       /\ GivesIterator(<<"s", "t", "r", "e", "a", "m">>, "SafeStream")
       /\ (TypeSaid(<<"n", "o", "n", "e">>) \/ TypeSaid(<<"j", "s", "o", "n">>)
             \/ kv.typeReply.type # "string") => kv.err
       /\ kv.err => (kv.single = NoValue /\ kv.collection = "")
       /\ ~kv.err => ((kv.single # NoValue) # (kv.collection # ""))

C29_Witness ==
    /\ kv.returned
    /\ TypeSaid(<<"z", "s", "e", "t">>)
    /\ kv.collection = "SafeSortedSets"
    /\ KeySends = 1
    /\ op = ""

(***************************************************************************)
(* C30.  After any sequence of MergeServerCommands calls, every command    *)
(* that was already in the registry keeps its documentation unchanged      *)
(* (Summary, Arguments, Group), and every merged command name and the name *)
(* of each of its direct subcommands is returned by Get and is listed by   *)
(* GetCommands for every prefix of the name.  The merged names are those   *)
(* FetchServerCommands produces: upper case, "|" replaced by a space.      *)
(***************************************************************************)
Listed(name, prefix) ==
    \E i \in 1..Len(GetCommands(prefix)) : GetCommands(prefix)[i] = name

Found(name) ==
    /\ Get(name) # NoDoc
    /\ Get(name).Command = name
    /\ \A k \in 0..Len(name) : Listed(name, SubSeq(name, 1, k))

C30_MergeKeepsAndFinds ==
    /\ [](\A name \in regMerged : Found(name))
    /\ [][\A name \in DOMAIN regIndex :
            /\ Get(name)'.Summary = Get(name).Summary
            /\ Get(name)'.Arguments = Get(name).Arguments
            /\ Get(name)'.Group = Get(name).Group]_vars

\* Two merges have run: a known command, a new one and one with a
\* subcommand were merged, and the registry has grown.
C30_Witness ==
    /\ regCalls = MaxMerges
    /\ {<<"G", "E", "T">>, <<"D", "E", "L">>,
         <<"A", "C", "L">>, <<"A", "C", "L", " ", "C", "A", "T">>} \subseteq regMerged
    /\ Len(regDocs) > Len(BuiltInDocs)
    /\ Get(<<"g", "e", "t">>) = BuiltInDocs[1]

(***************************************************************************)
(* C31.  Parse strips the " | shell" suffix first and the "#:codec" suffix *)
(* second and stores them in Pipe and Modifier; the name is the first      *)
(* token in upper case; CommandBytes encodes the tokens of what remains    *)
(* and nothing of the two suffixes.  Only for SET with a modifier and a    *)
(* value is token index 2 replaced by its serialized form, and an unknown  *)
(* codec then makes Parse return an error and no command.                  *)
(***************************************************************************)
\* The text in front of the first " | ", and what is behind it.
BeforePipe(text) ==
    IF Occurrences(text, <<" ", "|", " ">>) = {} THEN text
    ELSE SubSeq(text, 1, Min(Occurrences(text, <<" ", "|", " ">>)) - 1)

AfterPipe(text) ==
    IF Occurrences(text, <<" ", "|", " ">>) = {} THEN <<>>
    ELSE SubSeq(text, Min(Occurrences(text, <<" ", "|", " ">>)) + 3, Len(text))

\* Of a text without a pipe: what is in front of the last "#:", and behind.
BeforeCodec(text) ==
    IF Occurrences(text, <<"#", ":">>) = {} THEN text
    ELSE SubSeq(text, 1, Max(Occurrences(text, <<"#", ":">>)) - 1)

AfterCodec(text) ==
    IF Occurrences(text, <<"#", ":">>) = {} THEN <<>>
    ELSE SubSeq(text, Max(Occurrences(text, <<"#", ":">>)) + 2, Len(text))

KnownCodecs ==
    {<<"b", "a", "s", "e", "6", "4">>, <<"g", "z", "i", "p">>,
     <<"s", "n", "a", "p", "p", "y">>}

C31_ParseSuffixes ==
    (codecCall = "Parse" /\ ~IsBlank(codecArg)) =>
        LET p == Parse(codecArg)
            modifier == TrimSpace(AfterCodec(BeforePipe(codecArg)))
            words == tokenize(BeforeCodec(BeforePipe(codecArg)))
            isSet == /\ Len(words) >= 3
                     /\ ToUpper(words[1]) = <<"S", "E", "T">>
                     /\ modifier # <<>>
            bulks == [i \in 1..Len(words) |->
                        IF isSet /\ i = 3
                        THEN Serialize(serializerGet(modifier), words[i])
                        ELSE words[i]]
        IN /\ p.err <=> (isSet /\ ToLower(modifier) \notin KnownCodecs)
           /\ p.err => (p.Name = <<>> /\ p.Args = <<>> /\ codecRet = <<>>)
           /\ ~p.err =>
                /\ p.Pipe = TrimSpace(AfterPipe(codecArg))
                /\ p.Modifier = modifier
                /\ words = <<>> => (p.Name = <<>> /\ codecRet = <<>>)
                /\ words # <<>> =>
                     /\ p.Name = ToUpper(words[1])
                     /\ p.Args = Tail(words)
                     /\ codecRet = Encode(BulkArray(bulks))

\* TestParse's "SET with Codec": the value travels as its base64 text.
C31_Witness ==
    /\ codecCall = "Parse"
    /\ codecArg = <<"S", "E", "T", " ", "k", "e", "y", " ", "v", "a", "l", "u", "e", "#", ":", "b", "a", "s", "e", "6", "4">>
    /\ codecRet = <<"*", "3", "\r", "\n", "$", "3", "\r", "\n", "S", "E", "T", "\r", "\n", "$", "3", "\r", "\n", "k", "e", "y", "\r", "\n", "$", "8", "\r", "\n", "d", "m", "F", "s", "d", "W", "U", "=", "\r", "\n">>

\* The elements PrintRedisValues has printed, in order.
PrintedValues ==
    LET at == {n \in 1..Len(printOut) : printOut[n].kind = "element"}
        RECURSIVE Sorted(_)
        Sorted(S) == IF S = {} THEN <<>> ELSE <<Min(S)>> \o Sorted(S \ {Min(S)})
        order == Sorted(at)
    IN  [j \in 1..Len(order) |-> printOut[order[j]].value]

\* The place in printOut of the j-th element printed.
PlaceOf(j) ==
    CHOOSE n \in 1..Len(printOut) :
        /\ printOut[n].kind = "element"
        /\ Cardinality({m \in 1..n : printOut[m].kind = "element"}) = j

\* The question was written right after the j-th element.
AskedAfter(j) ==
    /\ PlaceOf(j) < Len(printOut)
    /\ printOut[PlaceOf(j) + 1].kind = "prompt"

\* PrintRedisValues runs; every element pulled so far went through its loop.
Printing == family \in PrintFamilies /\ pc # "yield"

(***************************************************************************)
(* C32.  PrintRedisValues asks for confirmation after every warningAt-th   *)
(* element and only then; on an answer that does not start with Y or y     *)
(* (the end of input too) it stops pulling: no later element is printed    *)
(* and the iterator sends no further request; on Y or y it goes on with    *)
(* the next element.                                                       *)
(***************************************************************************)
C32_Pagination ==
    /\ [](Printing =>
            /\ PrintedValues = yielded
            /\ \A j \in 1..Len(yielded) :
                  AskedAfter(j) <=> (warningAt > 0 /\ j % warningAt = 0)
            /\ printOut # <<>> => printOut[1].kind = "element"
            /\ \A n \in 1..(Len(printOut) - 1) :
                  printOut[n].kind = "prompt" => printOut[n + 1].kind = "element"
            /\ Len(answers) = Cardinality({n \in 1..Len(printOut) :
                                             printOut[n].kind = "prompt"})
            /\ \A n \in 1..(Len(answers) - 1) : answers[n][1] \in {"Y", "y"}
            /\ stopped <=>
                  /\ answers # <<>>
                  /\ printOut[Len(printOut)].kind = "prompt"
                  /\ \/ answers[Len(answers)] = <<>>
                     \/ answers[Len(answers)][1] \notin {"Y", "y"}
            /\ stopped => pc = "done")
    /\ [][stopped => UNCHANGED <<printOut, yielded, sent, recvCalls, reader>>]_vars

\* Two full pages were asked about: "yes" to the first question, "no" to the
\* second, and the listing stopped after the fourth element.
C32_Witness ==
    /\ Printing
    /\ warningAt = 2
    /\ Len(yielded) = 4
    /\ answers = <<<<"y", "e", "s">>, <<"n", "o">>>>
    /\ stopped
    /\ pc = "done"

\* The arguments of the AUTH command for the credentials of Connect.
AuthArguments ==
    IF user = <<>> THEN <<<<"A", "U", "T", "H">>, pass>>
    ELSE <<<<"A", "U", "T", "H">>, user, pass>>

\* The command written i-th on the transport has this name.
IsCommand(i, name) == wire[i].count > 0 /\ ToUpper(wire[i].bulks[1].bytes) = name

\* The reply to the command written i-th was received, and it was v.
ReplyReceived(i, v) ==
    \E n \in 1..Len(frames) :
        /\ frames[n].cmd = i
        /\ frames[n].bytes = Encode(v)
        /\ FrameEnd(n) <= rpos

(***************************************************************************)
(* C33.  Connect sends AUTH if a password is supplied and exactly then     *)
(* (AUTH <pass> without a user, AUTH <user> <pass> with one, each          *)
(* credential as one bulk-string argument), AUTH is the first command on   *)
(* the transport, and INFO is sent only after the AUTH reply OK was        *)
(* received or when no password was supplied.                              *)
(***************************************************************************)
C33_AuthBeforeInfo ==
    /\ pass = <<>> => \A i \in 1..Len(wire) : ~IsCommand(i, <<"A", "U", "T", "H">>)
    /\ (pass # <<>> /\ wire # <<>>) =>
          /\ wire[1] = EncodeTokens(AuthArguments)
          /\ \A i \in 2..Len(wire) : ~IsCommand(i, <<"A", "U", "T", "H">>)
    /\ (op = "Connect" /\ pass # <<>> /\ cmd = "INFO") =>
          /\ wire # <<>>
          /\ ReplyReceived(1, OkString)
    /\ (op = "Connect" /\ wire # <<>>) =>
          \A i \in 1..Len(wire) :
              IsCommand(i, <<"I", "N", "F", "O">>) =>
                  IF pass = <<>> THEN i = 1 ELSE i = 2 /\ ReplyReceived(1, OkString)

\* The bulk strings inside a value, the value itself included.
RECURSIVE BulkStrings(_)
BulkStrings(v) ==
    IF v.type = "bulk" THEN {v}
    ELSE IF v.type = "array"
    THEN UNION {BulkStrings(v.values[i]) : i \in 1..Len(v.values)}
    ELSE {}

\* The value decoded last from the input: the value itself, or the last
\* element of the array, and so on down.
RECURSIVE LastDecoded(_)
LastDecoded(v) ==
    IF v.type = "array" /\ v.values # <<>>
    THEN LastDecoded(v.values[Len(v.values)])
    ELSE v

\* ParseValue returned a value.
Decoded == codecCall \in {"ParseValue", "ReadBack"} /\ codecRet.st = "ok"

\* The bytes the decoder was given.
DecoderInput == IF codecCall = "ReadBack" THEN SendRaw(codecArg) ELSE codecArg

(***************************************************************************)
(* C34.  Every RedisBulkString that ParseValue returns, at any depth, has  *)
(* Length >= 0 and Length equal to the byte length of its Value, and the   *)
(* CRLF behind its payload was checked; a null bulk string is returned as  *)
(* RedisNull, never as a RedisBulkString of Length -1.                     *)
(***************************************************************************)
C34_BulkStringLength ==
    /\ Decoded =>
          /\ \A b \in BulkStrings(codecRet.val) : b.int >= 0 /\ b.int = Len(b.str)
          /\ LastDecoded(codecRet.val).type = "bulk" =>
                LET b == LastDecoded(codecRet.val) IN
                SubSeq(DecoderInput, codecRet.next - Len(b.str) - 2, codecRet.next - 1)
                    = b.str \o CRLF
    /\ Decoding(<<"$", "-", "1">> \o CRLF) => codecRet = Ok(RedisNull, 6)
    /\ Decoding(<<"*", "2">> \o CRLF \o <<"$", "-", "1">> \o CRLF) =>
          (codecRet.st = "ok" => codecRet.val.values[1] = RedisNull)
    /\ (codecCall = "ParseValue"
          /\ \E n \in 0..MaxDeclared :
                StartsWith(codecArg, <<"$">> \o FormatInt(n) \o CRLF)
                /\ Len(codecArg) >= Len(FormatInt(n)) + 3 + n + 2
                /\ SubSeq(codecArg, Len(FormatInt(n)) + 4 + n, Len(FormatInt(n)) + 5 + n) # CRLF)
       => codecRet.st = "error"

\* An array of two elements: a null next to a bulk string of length 0.
C34_Witness ==
    /\ codecCall = "ParseValue"
    /\ codecArg = <<"*", "2">> \o CRLF \o <<"$", "-", "1">> \o CRLF \o <<"$", "0">> \o CRLF \o CRLF
    /\ codecRet = Ok(RedisArray(<<RedisNull, RedisBulkString(<<>>)>>), 16)

\* The goroutines inside a call on the Connection.
InConnectionIO == {g \in DOMAIN gos : gos[g].pc \in {"io", "fetching"}}

(***************************************************************************)
(* C35.  In the TUI, once the event loop runs, every Send, SendRaw and     *)
(* Receive on the shared Connection, every page of an iterator and the     *)
(* replacement of the connection by CONNECT included, happens while the    *)
(* calling goroutine holds connMu: no two goroutines perform connection    *)
(* I/O at the same time.                                                   *)
(***************************************************************************)
C35_ConnMuHeld ==
    /\ \A g \in InConnectionIO : connMu = g
    /\ Cardinality(InConnectionIO) <= 1

(***************************************************************************)
(* C36.  In the REPL, when handleSubscribe has returned after Ctrl+C, the  *)
(* goroutine that drains Subscribe has stopped reading: no Receive of the  *)
(* subscription is in progress when the REPL sends and receives its next   *)
(* command, and the goroutine never consumes the reply to a later command. *)
(***************************************************************************)
C36_SubscriptionStopped ==
    /\ (ctxDone /\ replPc = "recv") => subPc # "recv"
    /\ \A i \in 1..Len(subGot) : subGot[i].kind = "message"

\* The arguments of the first paging command of iterator f for the key k.
PagingArguments(f, k) ==
    CASE f = "SafeKeys" ->
           <<CmdName(f), <<"0">>, <<"M", "A", "T", "C", "H">>, k,
             <<"C", "O", "U", "N", "T">>, <<"1", "0", "0">>>>
      [] f \in {"SafeSets", "SafeHash", "SafeSortedSets"} ->
           <<CmdName(f), k, <<"0">>, <<"C", "O", "U", "N", "T">>, <<"1", "0", "0">>>>
      [] f = "SafeList" -> <<CmdName(f), k, <<"0">>, <<"9", "9">>>>
      [] f = "SafeStream" ->
           <<CmdName(f), k, <<"-">>, <<"+">>, <<"C", "O", "U", "N", "T">>, <<"1", "0", "0">>>>

(***************************************************************************)
(* C37.  For every key or pattern, ones that hold a space, a double quote, *)
(* a backslash, "#:" or " | " included, each paging command of a cursor    *)
(* iterator and the TYPE and GET commands of GetKeyValue hold the key as   *)
(* exactly one bulk-string argument whose bytes equal the key: the number  *)
(* of arguments does not depend on the key.                                *)
(***************************************************************************)
C37_KeyIsOneArgument ==
    codecCall = "Parse" =>
        \A k \in HardKeys :
            /\ \A f \in CursorFamilies :
                  codecArg = CommandLine(f, k, InitialCursor(f), 0) =>
                      codecRet = SendRaw(PagingArguments(f, k))
            /\ \A n \in {<<"T", "Y", "P", "E">>, <<"G", "E", "T">>} :
                  codecArg = KeyCommand(n, k) => codecRet = SendRaw(<<n, k>>)

\* The reply is a page of HSCAN: [cursor, [field, value, ...]].
IsHashPage(v) == v.type = "array" /\ Len(v.values) >= 2 /\ v.values[2].type = "array"

\* The flat list of a page without its last element when their number is odd.
PairedPart(v) ==
    LET flat == v.values[2].values IN SubSeq(flat, 1, Len(flat) - (Len(flat) % 2))

\* The paired parts of the pages received so far, one behind the other.
PairedSoFar ==
    ConcatAll([i \in 1..Len(replies) |->
                  IF IsHashPage(replies[i]) THEN PairedPart(replies[i]) ELSE <<>>])

\* The fields and values of the arrays yielded, one behind the other.
YieldedFlat == ConcatAll([i \in 1..Len(DataYielded) |-> DataYielded[i].values])

\* The page received last has an odd number of elements and is not the last.
OddPageGoesOn ==
    /\ replies # <<>>
    /\ IsHashPage(replies[Len(replies)])
    /\ Len(replies[Len(replies)].values[2].values) % 2 = 1
    /\ ~ScanFinished(StringValue(replies[Len(replies)].values[1]))

(***************************************************************************)
(* C38.  Every element SafeHash yields is a 2-element array or the         *)
(* terminal error element; of a page whose flat list has an odd number n   *)
(* of elements it yields (n-1)/2 pairs, drops the last element without     *)
(* yielding it and without an error element, and goes on with the next     *)
(* page.                                                                   *)
(***************************************************************************)
C38_HashPairs ==
    family = "SafeHash" =>
        /\ \A i \in 1..Len(yielded) :
              \/ yielded[i].type = "array" /\ Len(yielded[i].values) = 2
              \/ /\ yielded[i].type = "error"
                 /\ i = Len(yielded)
                 /\ pc = "done" \/ (pc = "yield" /\ terminal)
        /\ IsPrefix(YieldedFlat, PairedSoFar)
        /\ pc \in {"send", "recv", "done"} /\ ~stopped => YieldedFlat = PairedSoFar
        /\ (OddPageGoesOn /\ pc \in {"send", "recv", "done"} /\ ~stopped) =>
              /\ pc # "done" \/ failure # ""
              /\ DataYielded = yielded \/ failure # ""

\* A page of three elements with cursor "1": one pair was yielded, the
\* third element was not, and the second HSCAN was sent.
C38_Witness ==
    /\ family = "SafeHash"
    /\ Len(replies) = 1
    /\ OddPageGoesOn
    /\ Len(replies[1].values[2].values) = 3
    /\ yielded = <<RedisArray(<<Elem(1, 1), Elem(1, 2)>>)>>
    /\ Len(sent) = 2
    /\ pc = "recv"

(***************************************************************************)
(* C39.  Subscribe after the cancellation of its context: at most one more *)
(* element is yielded, and only by the Receive that was in progress when   *)
(* the context was cancelled; no Receive is started after the              *)
(* cancellation; and when that Receive times out, the loop goes to its     *)
(* check of the context and returns from there with nothing yielded.       *)
(***************************************************************************)
\* The elements yielded and the Receive calls ended since the cancellation.
YieldedSinceCancel == Len(yielded) - cancelAt.yielded

ReceivedSinceCancel == recvCalls - cancelAt.recvCalls

C39_AfterCancel ==
    /\ [](family = "Subscribe" /\ cancelled =>
            /\ YieldedSinceCancel \in {0, 1}
            /\ ReceivedSinceCancel \in {0, 1}
            /\ YieldedSinceCancel <= ReceivedSinceCancel
            /\ cancelAt.pc # "poll" =>
                  YieldedSinceCancel = 0 /\ ReceivedSinceCancel = 0
            /\ pc = "poll" =>
                  /\ cancelAt.pc = "poll"
                  /\ YieldedSinceCancel = 0 /\ ReceivedSinceCancel = 0)
    /\ [][family = "Subscribe" /\ cancelled =>
            /\ pc' = "poll" => pc = "poll"
            /\ (pc = "poll" /\ recvCalls' # recvCalls /\ yielded' = yielded) =>
                  pc' = "ctx"
            /\ pc = "ctx" => pc' = "done" /\ yielded' = yielded]_vars

\* The context was cancelled during a Receive, whose message was yielded;
\* the consumer went on and the loop returned at its check of the context.
C39_Witness ==
    /\ family = "Subscribe"
    /\ cancelled
    /\ cancelAt.pc = "poll"
    /\ YieldedSinceCancel = 1
    /\ Last(yielded).type # "error"
    /\ pc = "done"
    /\ ~stopped
    /\ failure = ""

(***************************************************************************)
(* C40.  After NewRegistry and any sequence of MergeServerCommands calls,  *)
(* every name of the index maps to a position of docs whose Command is     *)
(* that name, no two records of docs added by merging have the same        *)
(* Command, and MergeServerCommands is idempotent: a registry into which a *)
(* command list has been merged is left as it is by a second merge of the  *)
(* same list, and so is it by any call whose names were all merged before. *)
(***************************************************************************)
\* index[name] is a position of docs, and the record there has that name.
IndexSound(reg) ==
    \A name \in DOMAIN reg.index :
        /\ reg.index[name] \in 1..Len(reg.docs)
        /\ reg.docs[reg.index[name]].Command = name

\* The positions of the records that mergeOne appended.
MergedPlaces(reg) == (Len(BuiltInDocs) + 1)..Len(reg.docs)

MergedDistinct(reg) ==
    \A i, j \in MergedPlaces(reg) :
        reg.docs[i].Command = reg.docs[j].Command => i = j

\* Merging cmds into reg once and twice gives the same registry.
Idempotent(reg, cmds) ==
    LET once == MergeServerCommands(reg, cmds)
    IN /\ MergeServerCommands(once, cmds) = once
       /\ IndexSound(once)
       /\ MergedDistinct(once)

C40_RegistryInvariant ==
    /\ [](regDocs # <<>> =>
            /\ IndexSound(Registry)
            /\ MergedDistinct(Registry)
            /\ \A reply \in CommandReplies :
                  Idempotent(Registry, FetchServerCommands(reply)))
    /\ [][(regCalls' # regCalls /\ regMerged' = regMerged) =>
            (regDocs' = regDocs /\ regIndex' = regIndex)]_vars

\* Every call so far merged names of the list ACL with its subcommand and
\* DEL; the registry is the built-in one with that list merged into it,
\* three records longer, and the list has been merged more than once.
C40_Witness ==
    /\ regCalls = MaxMerges
    /\ Len(regDocs) = Len(BuiltInDocs) + 3
    /\ \E reply \in CommandReplies :
          LET cmds == FetchServerCommands(reply)
          IN /\ MergedNames(cmds) = regMerged
             /\ Len(cmds) = 2 /\ cmds[1].Subcommands # <<>>
             /\ Registry = MergeServerCommands(
                               [docs |-> BuiltInDocs, index |-> IndexOf(BuiltInDocs)], cmds)
             /\ Registry = MergeServerCommands(Registry, cmds)

=============================================================================
